---- MODULE Spec2Model ----
(***************************************************************************)
(* State-machine model of the CIS-2 NFT contract in src/nft/src.           *)
(*                                                                         *)
(* The persisted contract state (state.rs, struct State) is the record     *)
(* `state`; every entrypoint is a pure operator over (state, sender,       *)
(* block time, parameter) that returns the result, the working state and   *)
(* the events logged, computed statement by statement as the Rust code     *)
(* does. The host commits the working state and the log of a call that     *)
(* returns Ok and discards both when the call returns an error (Receive).  *)
(*                                                                         *)
(* Counters are u32 in the code; every supply cap explored is far below    *)
(* 2^32, so `counter += 1` never wraps here. Logger capacity (LogFull) is  *)
(* never reached by the batch sizes explored.                              *)
(***************************************************************************)
EXTENDS Integers, Sequences, FiniteSets, TLC

\* ------------------------------------------------------------ bounds
MaxToken == 2
MaxBatch == 2
MaxTime == 2

\* ------------------------------------------------------------ universe
\* Address::Account(a) for a in Accounts, Address::Contract(k) for k in Contracts.
Accounts == {"a1", "a2"}
Contracts == {"k1"}
Addresses == Accounts \cup Contracts
\* ctx.owner(): the account that created the instance.
OWNER == "a1"
\* InitParams.minter of the instance.
MINTER == "a2"
Tokens == 1 .. MaxToken
Uris == {"u1", "u2"}
Times == 0 .. MaxTime

\* state: the persisted State; now: the block time; events: the log kept of
\* the last transaction; last: its entrypoint and result; latest: history,
\* the pairs <<owner, operator>> whose most recent entry in a successful
\* updateOperator call sent by owner was Add; wire: the event codec at work,
\* the event written (if one was), the bytes written or received and what
\* the decoder made of them (if it has run); voting: the persisted State of
\* the voting contract; cast: history, for each account the indices its
\* successful votes recorded, in order.
VARIABLES state, now, events, last, latest, wire, voting, cast
vars == <<state, now, events, last, latest, wire, voting, cast>>

\* sender.matches_account(&account)
matches_account(sender, account) == sender \in Accounts /\ sender = account

\* StateMap::insert / StateSet helpers on partial functions.
MapInsert(m, k, v) == [x \in DOMAIN m \cup {k} |-> IF x = k THEN v ELSE m[x]]

Min(a, b) == IF a <= b THEN a ELSE b

\* AddressState::empty
AddressState_empty == [owned_tokens |-> {}, operators |-> {}]

\* address_state.entry(a).or_insert_with(AddressState::empty)
EntryOrEmpty(address_state, a) ==
  IF a \in DOMAIN address_state THEN address_state[a] ELSE AddressState_empty

\* State::init taking the mint deadline from init_params.mint_start.
State_init_DeadlineFromStart(init_params) ==
  [ name |-> init_params.name,
    symbol |-> init_params.symbol,
    address_state |-> << >>,
    all_tokens |-> {},
    token_uris |-> << >>,
    implementors |-> << >>,
    mint_count |-> << >>,
    counter |-> 0,
    minter |-> init_params.minter,
    mint_start |-> init_params.mint_start,
    mint_deadline |-> init_params.mint_start,
    max_total_supply |-> init_params.max_total_supply ]

\* State::init
State_init(init_params) ==
  [ name |-> init_params.name,
    symbol |-> init_params.symbol,
    address_state |-> << >>,
    all_tokens |-> {},
    token_uris |-> << >>,
    implementors |-> << >>,
    mint_count |-> << >>,
    counter |-> 0,
    minter |-> init_params.minter,
    mint_start |-> init_params.mint_start,
    mint_deadline |-> init_params.mint_deadline,
    max_total_supply |-> init_params.max_total_supply ]

\* The Deploy event contract_init logs.
DeployEventOf(params) ==
  [tag |-> "Deploy", name |-> params.name, symbol |-> params.symbol,
   contract_uri |-> params.contract_uri, minter |-> params.minter,
   mint_start |-> params.mint_start, mint_deadline |-> params.mint_deadline,
   max_total_supply |-> params.max_total_supply]

\* contract_init
contract_init(params) ==
  [res |-> "Ok", st |-> State_init(params), log |-> << DeployEventOf(params) >>]

\* State::mint with the supply check off by one (count <= max + 1).
State_mint_CapOffByOne(st, token, owner, token_uri) ==
  LET st2 == [st EXCEPT !.all_tokens = @ \cup {token},
                        !.token_uris = MapInsert(@, token, token_uri)]
      st3 == [st2 EXCEPT !.counter = @ + 1]
      st4 == [st3 EXCEPT !.mint_count = MapInsert(@, token, st3.counter)]
      owner_state == EntryOrEmpty(st4.address_state, owner)
      st5 == [st4 EXCEPT !.address_state =
                MapInsert(@, owner,
                  [owner_state EXCEPT !.owned_tokens = @ \cup {token}])]
  IN  IF token \in st.all_tokens
        THEN [res |-> "TokenIdAlreadyExists", st |-> st, count |-> 0]
      ELSE IF ~(st3.counter <= st3.max_total_supply + 1)
        THEN [res |-> "MaxTotalSupplyReached", st |-> st3, count |-> 0]
      ELSE [res |-> "Ok", st |-> st5, count |-> st3.counter]

\* State::mint without the check that the token id is new.
State_mint_NoDuplicateCheck(st, token, owner, token_uri) ==
  LET st2 == [st EXCEPT !.all_tokens = @ \cup {token},
                        !.token_uris = MapInsert(@, token, token_uri)]
      st3 == [st2 EXCEPT !.counter = @ + 1]
      st4 == [st3 EXCEPT !.mint_count = MapInsert(@, token, st3.counter)]
      owner_state == EntryOrEmpty(st4.address_state, owner)
      st5 == [st4 EXCEPT !.address_state =
                MapInsert(@, owner,
                  [owner_state EXCEPT !.owned_tokens = @ \cup {token}])]
  IN  IF ~(st3.counter <= st3.max_total_supply)
        THEN [res |-> "MaxTotalSupplyReached", st |-> st3, count |-> 0]
        ELSE [res |-> "Ok", st |-> st5, count |-> st3.counter]

\* State::mint that records no mint_count entry for the token.
State_mint_NoMintCount(st, token, owner, token_uri) ==
  LET st2 == [st EXCEPT !.all_tokens = @ \cup {token},
                        !.token_uris = MapInsert(@, token, token_uri)]
      st3 == [st2 EXCEPT !.counter = @ + 1]
      owner_state == EntryOrEmpty(st3.address_state, owner)
      st5 == [st3 EXCEPT !.address_state =
                MapInsert(@, owner,
                  [owner_state EXCEPT !.owned_tokens = @ \cup {token}])]
  IN  IF token \in st.all_tokens
        THEN [res |-> "TokenIdAlreadyExists", st |-> st, count |-> 0]
      ELSE IF ~(st3.counter <= st3.max_total_supply)
        THEN [res |-> "MaxTotalSupplyReached", st |-> st3, count |-> 0]
      ELSE [res |-> "Ok", st |-> st5, count |-> st3.counter]

\* State::mint that leaves the counter as it was.
State_mint_NoIncrement(st, token, owner, token_uri) ==
  LET st2 == [st EXCEPT !.all_tokens = @ \cup {token},
                        !.token_uris = MapInsert(@, token, token_uri)]
      count == st2.counter + 1
      st4 == [st2 EXCEPT !.mint_count = MapInsert(@, token, count)]
      owner_state == EntryOrEmpty(st4.address_state, owner)
      st5 == [st4 EXCEPT !.address_state =
                MapInsert(@, owner,
                  [owner_state EXCEPT !.owned_tokens = @ \cup {token}])]
  IN  IF token \in st.all_tokens
        THEN [res |-> "TokenIdAlreadyExists", st |-> st, count |-> 0]
      ELSE IF ~(count <= st2.max_total_supply)
        THEN [res |-> "MaxTotalSupplyReached", st |-> st2, count |-> 0]
      ELSE [res |-> "Ok", st |-> st5, count |-> count]

\* State::mint that takes the count before incrementing the counter.
State_mint_CountBeforeIncrement(st, token, owner, token_uri) ==
  LET st2 == [st EXCEPT !.all_tokens = @ \cup {token},
                        !.token_uris = MapInsert(@, token, token_uri)]
      count == st2.counter
      st3 == [st2 EXCEPT !.counter = @ + 1]
      st4 == [st3 EXCEPT !.mint_count = MapInsert(@, token, count)]
      owner_state == EntryOrEmpty(st4.address_state, owner)
      st5 == [st4 EXCEPT !.address_state =
                MapInsert(@, owner,
                  [owner_state EXCEPT !.owned_tokens = @ \cup {token}])]
  IN  IF token \in st.all_tokens
        THEN [res |-> "TokenIdAlreadyExists", st |-> st, count |-> 0]
      ELSE IF ~(st3.counter <= st3.max_total_supply)
        THEN [res |-> "MaxTotalSupplyReached", st |-> st3, count |-> 0]
      ELSE [res |-> "Ok", st |-> st5, count |-> count]

\* State::mint: the working state it leaves (also on error), the result and
\* State::mint that takes each token out of max_total_supply.
State_mint_SpendsSupply(st, token, owner, token_uri) ==
  LET inserted == token \notin st.all_tokens
      st1 == [st EXCEPT !.all_tokens = @ \cup {token}]
      \* the second conjunct runs only when the first is true (&&)
      uri_fresh == token \notin DOMAIN st.token_uris
      st2 == IF inserted
               THEN [st1 EXCEPT !.token_uris = MapInsert(@, token, token_uri)]
               ELSE st1
      st3 == [st2 EXCEPT !.counter = @ + 1, !.max_total_supply = @ - 1]
      count == st3.counter
      st4 == [st3 EXCEPT !.mint_count = MapInsert(@, token, count)]
      owner_state == EntryOrEmpty(st4.address_state, owner)
      st5 == [st4 EXCEPT !.address_state =
                MapInsert(@, owner,
                  [owner_state EXCEPT !.owned_tokens = @ \cup {token}])]
  IN  IF ~(inserted /\ uri_fresh)
        THEN [res |-> "TokenIdAlreadyExists", st |-> st2, count |-> 0]
      ELSE IF ~(count <= st3.max_total_supply)
        THEN [res |-> "MaxTotalSupplyReached", st |-> st3, count |-> 0]
      ELSE [res |-> "Ok", st |-> st5, count |-> count]

\* the count it returns.
State_mint(st, token, owner, token_uri) ==
  LET inserted == token \notin st.all_tokens
      st1 == [st EXCEPT !.all_tokens = @ \cup {token}]
      \* the second conjunct runs only when the first is true (&&)
      uri_fresh == token \notin DOMAIN st.token_uris
      st2 == IF inserted
               THEN [st1 EXCEPT !.token_uris = MapInsert(@, token, token_uri)]
               ELSE st1
      st3 == [st2 EXCEPT !.counter = @ + 1]
      count == st3.counter
      st4 == [st3 EXCEPT !.mint_count = MapInsert(@, token, count)]
      owner_state == EntryOrEmpty(st4.address_state, owner)
      st5 == [st4 EXCEPT !.address_state =
                MapInsert(@, owner,
                  [owner_state EXCEPT !.owned_tokens = @ \cup {token}])]
  IN  IF ~(inserted /\ uri_fresh)
        THEN [res |-> "TokenIdAlreadyExists", st |-> st2, count |-> 0]
      ELSE IF ~(count <= st3.max_total_supply)
        THEN [res |-> "MaxTotalSupplyReached", st |-> st3, count |-> 0]
      ELSE [res |-> "Ok", st |-> st5, count |-> count]

\* contract_mint logging only the Mint and the Minted event for a token.
MintEvents_NoMetadata(token_id, owner, token_uri, mint_count, block_time) ==
  << [tag |-> "Mint", token_id |-> token_id, amount |-> 1, owner |-> owner],
     [tag |-> "Minted", token_id |-> token_id, mint_count |-> mint_count,
      timestamp |-> block_time, url |-> token_uri] >>

\* contract_mint logging the TokenMetadata event after the Minted event.
MintEvents_MetadataLast(token_id, owner, token_uri, mint_count, block_time) ==
  << [tag |-> "Mint", token_id |-> token_id, amount |-> 1, owner |-> owner],
     [tag |-> "Minted", token_id |-> token_id, mint_count |-> mint_count,
      timestamp |-> block_time, url |-> token_uri],
     [tag |-> "TokenMetadata", token_id |-> token_id, url |-> token_uri] >>

\* The three events contract_mint logs for one token.
MintEvents(token_id, owner, token_uri, mint_count, block_time) ==
  << [tag |-> "Mint", token_id |-> token_id, amount |-> 1, owner |-> owner],
     [tag |-> "TokenMetadata", token_id |-> token_id, url |-> token_uri],
     [tag |-> "Minted", token_id |-> token_id, mint_count |-> mint_count,
      timestamp |-> block_time, url |-> token_uri] >>

\* Number of iterations of tokens.iter().zip(owners).zip(token_uris).
ZipLen(params) ==
  Min(Len(params.tokens), Min(Len(params.owners), Len(params.token_uris)))

\* The loop of contract_mint stopping at the first failing entry and
\* reporting success for the entries before it.
RECURSIVE MintLoop_StopAtError(_, _, _, _, _)
MintLoop_StopAtError(st, log, params, i, block_time) ==
  IF i > ZipLen(params)
    THEN [res |-> "Ok", st |-> st, log |-> log]
    ELSE LET m == State_mint(st, params.tokens[i], params.owners[i], params.token_uris[i])
         IN  IF m.res # "Ok"
               THEN [res |-> "Ok", st |-> st, log |-> log]
               ELSE MintLoop_StopAtError(m.st,
                             log \o MintEvents(params.tokens[i], params.owners[i],
                                               params.token_uris[i], m.count, block_time),
                             params, i + 1, block_time)

\* The for loop of contract_mint from entry i on.
RECURSIVE MintLoop(_, _, _, _, _)
MintLoop(st, log, params, i, block_time) ==
  IF i > ZipLen(params)
    THEN [res |-> "Ok", st |-> st, log |-> log]
    ELSE LET m == State_mint(st, params.tokens[i], params.owners[i], params.token_uris[i])
         IN  IF m.res # "Ok"
               THEN [res |-> m.res, st |-> m.st, log |-> log]
               ELSE MintLoop(m.st,
                             log \o MintEvents(params.tokens[i], params.owners[i],
                                               params.token_uris[i], m.count, block_time),
                             params, i + 1, block_time)

\* contract_mint gated on the contract owner instead of the stored minter.
contract_mint_OwnerGate(st, sender, block_time, params) ==
  IF ~matches_account(sender, OWNER)
    THEN [res |-> "Unauthorized", st |-> st, log |-> << >>]
  ELSE IF ~(block_time >= st.mint_start)
    THEN [res |-> "MintingNotStarted", st |-> st, log |-> << >>]
  ELSE IF ~(block_time < st.mint_deadline)
    THEN [res |-> "MintDeadlineReached", st |-> st, log |-> << >>]
  ELSE MintLoop(st, << >>, params, 1, block_time)

\* contract_mint accepting a call at the deadline (block_time <= mint_deadline).
contract_mint_DeadlineInclusive(st, sender, block_time, params) ==
  IF ~matches_account(sender, st.minter)
    THEN [res |-> "Unauthorized", st |-> st, log |-> << >>]
  ELSE IF ~(block_time >= st.mint_start)
    THEN [res |-> "MintingNotStarted", st |-> st, log |-> << >>]
  ELSE IF ~(block_time <= st.mint_deadline)
    THEN [res |-> "MintDeadlineReached", st |-> st, log |-> << >>]
  ELSE MintLoop(st, << >>, params, 1, block_time)

\* contract_mint without the ensure! on the mint deadline.
contract_mint_NoDeadline(st, sender, block_time, params) ==
  IF ~matches_account(sender, st.minter)
    THEN [res |-> "Unauthorized", st |-> st, log |-> << >>]
  ELSE IF ~(block_time >= st.mint_start)
    THEN [res |-> "MintingNotStarted", st |-> st, log |-> << >>]
  ELSE MintLoop(st, << >>, params, 1, block_time)

\* contract_mint
contract_mint(st, sender, block_time, params) ==
  IF ~matches_account(sender, st.minter)
    THEN [res |-> "Unauthorized", st |-> st, log |-> << >>]
  ELSE IF ~(block_time >= st.mint_start)
    THEN [res |-> "MintingNotStarted", st |-> st, log |-> << >>]
  ELSE IF ~(block_time < st.mint_deadline)
    THEN [res |-> "MintDeadlineReached", st |-> st, log |-> << >>]
  ELSE MintLoop(st, << >>, params, 1, block_time)

\* State::set_minter
State_set_minter(st, minter) == [st EXCEPT !.minter = minter]

\* contract_set_minter without the ensure! on the sender.
contract_set_minter_NoGate(st, sender, minter) ==
  [res |-> "Ok", st |-> State_set_minter(st, minter), log |-> << >>]

\* contract_set_minter
contract_set_minter(st, sender, minter) ==
  IF ~matches_account(sender, OWNER)
    THEN [res |-> "Unauthorized", st |-> st, log |-> << >>]
    ELSE [res |-> "Ok", st |-> State_set_minter(st, minter), log |-> << >>]

\* State::contains_token
State_contains_token(st, token_id) == token_id \in st.all_tokens

\* State::is_operator with its arguments taken the other way round.
State_is_operator_Swapped(st, address, owner) ==
  IF address \in DOMAIN st.address_state
    THEN owner \in st.address_state[address].operators
    ELSE FALSE

\* State::is_operator that accepts an operator of any owner.
State_is_operator_AnyOwner(st, address, owner) ==
  \E o \in DOMAIN st.address_state : address \in st.address_state[o].operators

\* State::is_operator
State_is_operator(st, address, owner) ==
  IF owner \in DOMAIN st.address_state
    THEN address \in st.address_state[owner].operators
    ELSE FALSE

\* State::transfer that adds the token to `to` without removing it from `from`.
State_transfer_NoRemove(st, token_id, amount, from, to) ==
  IF token_id \notin st.all_tokens
    THEN [res |-> "InvalidTokenId", st |-> st]
  ELSE IF amount = 0
    THEN [res |-> "Ok", st |-> st]
  ELSE IF amount # 1
    THEN [res |-> "InsufficientFunds", st |-> st]
  ELSE IF from \notin DOMAIN st.address_state
    THEN [res |-> "InsufficientFunds", st |-> st]
  ELSE IF token_id \notin st.address_state[from].owned_tokens
    THEN [res |-> "InsufficientFunds", st |-> st]
  ELSE LET to_address_state == EntryOrEmpty(st.address_state, to)
       IN  [res |-> "Ok",
            st |-> [st EXCEPT !.address_state =
                      MapInsert(@, to,
                        [to_address_state EXCEPT !.owned_tokens = @ \cup {token_id}])]]

\* State::transfer that moves the token for every amount other than 0.
State_transfer_AnyAmount(st, token_id, amount, from, to) ==
  IF token_id \notin st.all_tokens
    THEN [res |-> "InvalidTokenId", st |-> st]
  ELSE IF amount = 0
    THEN [res |-> "Ok", st |-> st]
  ELSE IF from \notin DOMAIN st.address_state
    THEN [res |-> "InsufficientFunds", st |-> st]
  ELSE IF token_id \notin st.address_state[from].owned_tokens
    THEN [res |-> "InsufficientFunds", st |-> st]
  ELSE LET st1 == [st EXCEPT !.address_state[from].owned_tokens = @ \ {token_id}]
           to_address_state == EntryOrEmpty(st1.address_state, to)
       IN  [res |-> "Ok",
            st |-> [st1 EXCEPT !.address_state =
                      MapInsert(@, to,
                        [to_address_state EXCEPT !.owned_tokens = @ \cup {token_id}])]]

\* State::transfer without the check that the token id exists.
State_transfer_NoTokenCheck(st, token_id, amount, from, to) ==
  IF amount = 0
    THEN [res |-> "Ok", st |-> st]
  ELSE IF amount # 1
    THEN [res |-> "InsufficientFunds", st |-> st]
  ELSE IF from \notin DOMAIN st.address_state
    THEN [res |-> "InsufficientFunds", st |-> st]
  ELSE IF token_id \notin st.address_state[from].owned_tokens
    THEN [res |-> "InsufficientFunds", st |-> st]
  ELSE LET st1 == [st EXCEPT !.address_state[from].owned_tokens = @ \ {token_id}]
           to_address_state == EntryOrEmpty(st1.address_state, to)
       IN  [res |-> "Ok",
            st |-> [st1 EXCEPT !.address_state =
                      MapInsert(@, to,
                        [to_address_state EXCEPT !.owned_tokens = @ \cup {token_id}])]]

\* State::transfer that drops the transferred token from all_tokens.
State_transfer_Burn(st, token_id, amount, from, to) ==
  IF ~State_contains_token(st, token_id)
    THEN [res |-> "InvalidTokenId", st |-> st]
  ELSE IF amount = 0
    THEN [res |-> "Ok", st |-> st]
  ELSE IF amount # 1
    THEN [res |-> "InsufficientFunds", st |-> st]
  ELSE IF from \notin DOMAIN st.address_state
    THEN [res |-> "InsufficientFunds", st |-> st]
  ELSE
    LET from_had_the_token == token_id \in st.address_state[from].owned_tokens
        st1 == [st EXCEPT !.address_state[from].owned_tokens = @ \ {token_id}]
        to_address_state == EntryOrEmpty(st1.address_state, to)
        st2 == [st1 EXCEPT !.address_state =
                  MapInsert(@, to,
                    [to_address_state EXCEPT !.owned_tokens = @ \cup {token_id}])]
    IN  IF ~from_had_the_token
          THEN [res |-> "InsufficientFunds", st |-> st1]
          ELSE [res |-> "Ok", st |-> [st2 EXCEPT !.all_tokens = @ \ {token_id}]]

\* State::transfer that also empties the operator set of `from`.
State_transfer_ClearOperators(st, token_id, amount, from, to) ==
  IF ~State_contains_token(st, token_id)
    THEN [res |-> "InvalidTokenId", st |-> st]
  ELSE IF amount = 0
    THEN [res |-> "Ok", st |-> st]
  ELSE IF amount # 1
    THEN [res |-> "InsufficientFunds", st |-> st]
  ELSE IF from \notin DOMAIN st.address_state
    THEN [res |-> "InsufficientFunds", st |-> st]
  ELSE
    LET from_had_the_token == token_id \in st.address_state[from].owned_tokens
        st1 == [st EXCEPT !.address_state[from] =
                  [owned_tokens |-> @.owned_tokens \ {token_id}, operators |-> {}]]
        to_address_state == EntryOrEmpty(st1.address_state, to)
        st2 == [st1 EXCEPT !.address_state =
                  MapInsert(@, to,
                    [to_address_state EXCEPT !.owned_tokens = @ \cup {token_id}])]
    IN  IF ~from_had_the_token
          THEN [res |-> "InsufficientFunds", st |-> st1]
          ELSE [res |-> "Ok", st |-> st2]

\* State::transfer that adds the token to `to` before taking it from `from`.
State_transfer_InsertFirst(st, token_id, amount, from, to) ==
  IF ~State_contains_token(st, token_id)
    THEN [res |-> "InvalidTokenId", st |-> st]
  ELSE IF amount = 0
    THEN [res |-> "Ok", st |-> st]
  ELSE IF amount # 1
    THEN [res |-> "InsufficientFunds", st |-> st]
  ELSE IF from \notin DOMAIN st.address_state
    THEN [res |-> "InsufficientFunds", st |-> st]
  ELSE
    LET from_had_the_token == token_id \in st.address_state[from].owned_tokens
        to_address_state == EntryOrEmpty(st.address_state, to)
        st1 == [st EXCEPT !.address_state =
                  MapInsert(@, to,
                    [to_address_state EXCEPT !.owned_tokens = @ \cup {token_id}])]
        st2 == [st1 EXCEPT !.address_state[from].owned_tokens = @ \ {token_id}]
    IN  IF ~from_had_the_token
          THEN [res |-> "InsufficientFunds", st |-> st]
          ELSE [res |-> "Ok", st |-> st2]

\* State::transfer: the result and the working state it leaves.
State_transfer(st, token_id, amount, from, to) ==
  IF ~State_contains_token(st, token_id)
    THEN [res |-> "InvalidTokenId", st |-> st]
  ELSE IF amount = 0
    THEN [res |-> "Ok", st |-> st]
  ELSE IF amount # 1
    THEN [res |-> "InsufficientFunds", st |-> st]
  ELSE IF from \notin DOMAIN st.address_state
    THEN [res |-> "InsufficientFunds", st |-> st]
  ELSE
    LET from_had_the_token == token_id \in st.address_state[from].owned_tokens
        st1 == [st EXCEPT !.address_state[from].owned_tokens = @ \ {token_id}]
        to_address_state == EntryOrEmpty(st1.address_state, to)
        st2 == [st1 EXCEPT !.address_state =
                  MapInsert(@, to,
                    [to_address_state EXCEPT !.owned_tokens = @ \cup {token_id}])]
    IN  IF ~from_had_the_token
          THEN [res |-> "InsufficientFunds", st |-> st1]
          ELSE [res |-> "Ok", st |-> st2]

\* State::add_operator that records the owner in the operator's entry.
State_add_operator_Swapped(st, owner, operator) ==
  LET operator_state == EntryOrEmpty(st.address_state, operator)
  IN  [st EXCEPT !.address_state =
         MapInsert(@, operator, [operator_state EXCEPT !.operators = @ \cup {owner}])]

\* State::add_operator
State_add_operator(st, owner, operator) ==
  LET owner_state == EntryOrEmpty(st.address_state, owner)
  IN  [st EXCEPT !.address_state =
         MapInsert(@, owner, [owner_state EXCEPT !.operators = @ \cup {operator}])]

\* State::remove_operator that empties the owner's operator set.
State_remove_operator_ClearAll(st, owner, operator) ==
  IF owner \in DOMAIN st.address_state
    THEN [st EXCEPT !.address_state[owner].operators = {}]
    ELSE st

\* State::remove_operator that removes nothing.
State_remove_operator_Keep(st, owner, operator) == st

\* State::remove_operator
State_remove_operator(st, owner, operator) ==
  IF owner \in DOMAIN st.address_state
    THEN [st EXCEPT !.address_state[owner].operators = @ \ {operator}]
    ELSE st

\* The UpdateOperator event contract_update_operator logs for one update.
UpdateOperatorEventOf(sender, param) ==
  [tag |-> "UpdateOperator", owner |-> sender, operator |-> param.operator,
   update |-> param.update]

\* The for loop of contract_update_operator from entry i on.
RECURSIVE UpdateOperatorLoop(_, _, _, _, _)
UpdateOperatorLoop(st, log, sender, params, i) ==
  IF i > Len(params)
    THEN [res |-> "Ok", st |-> st, log |-> log]
    ELSE LET param == params[i]
             st1 == IF param.update = "Add"
                      THEN State_add_operator(st, sender, param.operator)
                      ELSE State_remove_operator(st, sender, param.operator)
         IN  UpdateOperatorLoop(st1, Append(log, UpdateOperatorEventOf(sender, param)),
                                sender, params, i + 1)

\* contract_update_operator
contract_update_operator(st, sender, params) ==
  UpdateOperatorLoop(st, << >>, sender, params, 1)

\* The Transfer event contract_transfer logs for one entry.
TransferEventOf(t) ==
  [tag |-> "Transfer", token_id |-> t.token_id, amount |-> t.amount,
   from |-> t.from, to |-> t.to]

\* contract_transfer authorising only the `from` address itself.
RECURSIVE TransferLoop_OwnerOnly(_, _, _, _, _)
TransferLoop_OwnerOnly(st, log, sender, transfers, i) ==
  IF i > Len(transfers)
    THEN [res |-> "Ok", st |-> st, log |-> log]
    ELSE LET t == transfers[i] IN
      IF ~(t.from = sender)
        THEN [res |-> "Unauthorized", st |-> st, log |-> log]
        ELSE LET r == State_transfer(st, t.token_id, t.amount, t.from, t.to)
                 log1 == Append(log, TransferEventOf(t))
             IN  IF r.res # "Ok"
                   THEN [res |-> r.res, st |-> r.st, log |-> log]
                 ELSE IF t.to \in Contracts /\ t.hook = "reject"
                   THEN [res |-> "InvokeContractError", st |-> r.st, log |-> log1]
                 ELSE TransferLoop_OwnerOnly(r.st, log1, sender, transfers, i + 1)

\* contract_transfer logging no event for an entry of amount 0.
RECURSIVE TransferLoop_SilentZero(_, _, _, _, _)
TransferLoop_SilentZero(st, log, sender, transfers, i) ==
  IF i > Len(transfers)
    THEN [res |-> "Ok", st |-> st, log |-> log]
    ELSE LET t == transfers[i] IN
      IF ~(t.from = sender \/ State_is_operator(st, sender, t.from))
        THEN [res |-> "Unauthorized", st |-> st, log |-> log]
        ELSE LET r == State_transfer(st, t.token_id, t.amount, t.from, t.to)
                 log1 == IF t.amount = 0 THEN log ELSE Append(log, TransferEventOf(t))
             IN  IF r.res # "Ok"
                   THEN [res |-> r.res, st |-> r.st, log |-> log]
                 ELSE IF t.to \in Contracts /\ t.hook = "reject"
                   THEN [res |-> "InvokeContractError", st |-> r.st, log |-> log1]
                 ELSE TransferLoop_SilentZero(r.st, log1, sender, transfers, i + 1)

\* contract_transfer dropping the error of the receive hook.
RECURSIVE TransferLoop_IgnoreHook(_, _, _, _, _)
TransferLoop_IgnoreHook(st, log, sender, transfers, i) ==
  IF i > Len(transfers)
    THEN [res |-> "Ok", st |-> st, log |-> log]
    ELSE LET t == transfers[i] IN
      IF ~(t.from = sender \/ State_is_operator(st, sender, t.from))
        THEN [res |-> "Unauthorized", st |-> st, log |-> log]
        ELSE LET r == State_transfer(st, t.token_id, t.amount, t.from, t.to)
                 log1 == Append(log, TransferEventOf(t))
             IN  IF r.res # "Ok"
                   THEN [res |-> r.res, st |-> r.st, log |-> log]
                 ELSE IF FALSE
                   THEN [res |-> "InvokeContractError", st |-> r.st, log |-> log1]
                 ELSE TransferLoop_IgnoreHook(r.st, log1, sender, transfers, i + 1)

\* The for loop of contract_transfer from entry i on. An entry's receiver is
\* contract_transfer validating every entry against the state the call
\* started in, and applying the entries that pass to the working state.
RECURSIVE TransferLoop_AgainstStart(_, _, _, _, _)
TransferLoop_AgainstStart(st, log, sender, transfers, i) ==
  IF i > Len(transfers)
    THEN [res |-> "Ok", st |-> st, log |-> log]
    ELSE LET t == transfers[i]
             start == IF i = 1 THEN st ELSE st.start
             work == IF i = 1 THEN st ELSE st.work IN
      IF ~(t.from = sender \/ State_is_operator(start, sender, t.from))
        THEN [res |-> "Unauthorized", st |-> start, log |-> log]
        ELSE LET r == State_transfer(start, t.token_id, t.amount, t.from, t.to)
                 w == State_transfer(work, t.token_id, t.amount, t.from, t.to)
                 log1 == Append(log, TransferEventOf(t))
             IN  IF r.res # "Ok"
                   THEN [res |-> r.res, st |-> start, log |-> log]
                 ELSE IF t.to \in Contracts /\ t.hook = "reject"
                   THEN [res |-> "InvokeContractError", st |-> start, log |-> log1]
                 ELSE IF i = Len(transfers)
                   THEN [res |-> "Ok", st |-> w.st, log |-> log1]
                 ELSE TransferLoop_AgainstStart([start |-> start, work |-> w.st], log1,
                                                sender, transfers, i + 1)

\* A receiving contract may call back into this contract while its hook
\* runs (host.invoke_contract hands it control with the working state
\* written): "forward" sends the token it has just received on to
\* HookTarget with a transfer call of its own, "appoint" makes HookTarget
\* its operator with an updateOperator call of its own; either hook answers
\* with the result of its call.
ReentrantHooks == {"forward", "appoint"}

HookTarget == "a1"

HookForward(t) ==
  [token_id |-> t.token_id, amount |-> t.amount, from |-> t.to, to |-> HookTarget,
   hook |-> "accept"]

HookAppoint == [update |-> "Add", operator |-> HookTarget]

\* contract_transfer invoking the hook before State::transfer has run.
RECURSIVE TransferLoop_HookFirst(_, _, _, _, _)
TransferLoop_HookFirst(st, log, sender, transfers, i) ==
  IF i > Len(transfers)
    THEN [res |-> "Ok", st |-> st, log |-> log]
    ELSE LET t == transfers[i] IN
      IF ~(t.from = sender \/ State_is_operator(st, sender, t.from))
        THEN [res |-> "Unauthorized", st |-> st, log |-> log]
      ELSE IF t.to \in Contracts /\ t.hook = "reject"
        THEN [res |-> "InvokeContractError", st |-> st, log |-> log]
      ELSE
        LET n == IF t.to \in Contracts /\ t.hook = "forward"
                   THEN TransferLoop_HookFirst(st, << >>, t.to, <<HookForward(t)>>, 1)
                 ELSE IF t.to \in Contracts /\ t.hook = "appoint"
                   THEN contract_update_operator(st, t.to, <<HookAppoint>>)
                 ELSE [res |-> "Ok", st |-> st, log |-> << >>]
        IN  IF n.res # "Ok"
              THEN [res |-> "InvokeContractError", st |-> st, log |-> log]
              ELSE LET r == State_transfer(n.st, t.token_id, t.amount, t.from, t.to)
                   IN  IF r.res # "Ok"
                         THEN [res |-> r.res, st |-> r.st, log |-> log]
                         ELSE TransferLoop_HookFirst(r.st,
                                (log \o n.log) \o <<TransferEventOf(t)>>,
                                sender, transfers, i + 1)

\* Receiver::Contract exactly when `to` is a contract address; `hook` is what
\* the receiving contract's hook answers when invoked for that entry.
RECURSIVE TransferLoop(_, _, _, _, _)
TransferLoop(st, log, sender, transfers, i) ==
  IF i > Len(transfers)
    THEN [res |-> "Ok", st |-> st, log |-> log]
    ELSE LET t == transfers[i] IN
      IF ~(t.from = sender \/ State_is_operator(st, sender, t.from))
        THEN [res |-> "Unauthorized", st |-> st, log |-> log]
        ELSE LET r == State_transfer(st, t.token_id, t.amount, t.from, t.to)
                 log1 == Append(log, TransferEventOf(t))
             IN  IF r.res # "Ok"
                   THEN [res |-> r.res, st |-> r.st, log |-> log]
                 ELSE IF t.to \in Contracts /\ t.hook = "reject"
                   THEN [res |-> "InvokeContractError", st |-> r.st, log |-> log1]
                 ELSE IF t.to \in Contracts /\ t.hook \in ReentrantHooks
                   THEN LET n == IF t.hook = "forward"
                                   THEN TransferLoop(r.st, << >>, t.to, <<HookForward(t)>>, 1)
                                   ELSE contract_update_operator(r.st, t.to, <<HookAppoint>>)
                        IN  IF n.res # "Ok"
                              THEN [res |-> "InvokeContractError", st |-> r.st, log |-> log1]
                              ELSE TransferLoop(n.st, log1 \o n.log, sender, transfers, i + 1)
                 ELSE TransferLoop(r.st, log1, sender, transfers, i + 1)

\* contract_transfer
contract_transfer(st, sender, transfers) ==
  TransferLoop(st, << >>, sender, transfers, 1)

\* State::set_implementors that appends to the list already recorded.
State_set_implementors_Merge(st, std_id, implementors) ==
  [st EXCEPT !.implementors =
     MapInsert(@, std_id,
       IF std_id \in DOMAIN @ THEN @[std_id] \o implementors ELSE implementors)]

\* State::set_implementors
State_set_implementors(st, std_id, implementors) ==
  [st EXCEPT !.implementors = MapInsert(@, std_id, implementors)]

\* contract_set_implementor
contract_set_implementor(st, sender, params) ==
  IF ~matches_account(sender, OWNER)
    THEN [res |-> "Unauthorized", st |-> st, log |-> << >>]
    ELSE [res |-> "Ok", st |-> State_set_implementors(st, params.id, params.implementors),
          log |-> << >>]

\* State::balance without the ensure! on contains_token.
State_balance_NoTokenCheck(st, token_id, address) ==
  IF address \in DOMAIN st.address_state
    THEN [res |-> "Ok",
          amount |-> IF token_id \in st.address_state[address].owned_tokens
                       THEN 1 ELSE 0]
    ELSE [res |-> "Ok", amount |-> 0]

\* State::balance
State_balance(st, token_id, address) ==
  IF ~State_contains_token(st, token_id)
    THEN [res |-> "InvalidTokenId", amount |-> 0]
  ELSE IF address \in DOMAIN st.address_state
    THEN [res |-> "Ok",
          amount |-> IF token_id \in st.address_state[address].owned_tokens
                       THEN 1 ELSE 0]
  ELSE [res |-> "Ok", amount |-> 0]

\* The for loop of contract_balance_of from query i on.
RECURSIVE BalanceOfLoop(_, _, _, _)
BalanceOfLoop(st, response, queries, i) ==
  IF i > Len(queries)
    THEN [res |-> "Ok", st |-> st, log |-> << >>, rv |-> response]
    ELSE LET b == State_balance(st, queries[i].token_id, queries[i].address)
         IN  IF b.res # "Ok"
               THEN [res |-> b.res, st |-> st, log |-> << >>, rv |-> << >>]
               ELSE BalanceOfLoop(st, Append(response, b.amount), queries, i + 1)

\* contract_balance_of
contract_balance_of(st, queries) == BalanceOfLoop(st, << >>, queries, 1)

\* contract_operator_of: the response holds one answer per query, in order.
contract_operator_of(st, queries) ==
  [res |-> "Ok", st |-> st, log |-> << >>,
   rv |-> [i \in 1 .. Len(queries) |->
             State_is_operator(st, queries[i].address, queries[i].owner)]]

\* The for loop of contract_token_metadata from token i on.
RECURSIVE TokenMetadataLoop(_, _, _, _)
TokenMetadataLoop(st, response, token_ids, i) ==
  IF i > Len(token_ids)
    THEN [res |-> "Ok", st |-> st, log |-> << >>, rv |-> response]
  ELSE IF ~State_contains_token(st, token_ids[i])
    THEN [res |-> "InvalidTokenId", st |-> st, log |-> << >>, rv |-> << >>]
  ELSE IF token_ids[i] \notin DOMAIN st.token_uris
    THEN [res |-> "InvalidTokenId", st |-> st, log |-> << >>, rv |-> << >>]
  ELSE TokenMetadataLoop(st,
         Append(response, [url |-> st.token_uris[token_ids[i]], hash |-> "None"]),
         token_ids, i + 1)

\* contract_token_metadata
contract_token_metadata(st, token_ids) == TokenMetadataLoop(st, << >>, token_ids, 1)

\* SUPPORTS_STANDARDS
SUPPORTS_STANDARDS == {"CIS-0", "CIS-2"}

\* State::have_implementors
State_have_implementors(st, std_id) ==
  IF std_id \in DOMAIN st.implementors
    THEN [tag |-> "SupportBy", addresses |-> st.implementors[std_id]]
    ELSE [tag |-> "NoSupport"]

\* contract_supports answering from the recorded lists before SUPPORTS_STANDARDS.
contract_supports_ListFirst(st, queries) ==
  [res |-> "Ok", st |-> st, log |-> << >>,
   rv |-> [i \in 1 .. Len(queries) |->
             IF queries[i] \in DOMAIN st.implementors
               THEN State_have_implementors(st, queries[i])
             ELSE IF queries[i] \in SUPPORTS_STANDARDS
               THEN [tag |-> "Support"]
             ELSE State_have_implementors(st, queries[i])]]

\* contract_supports: the response holds one answer per query, in order.
contract_supports(st, queries) ==
  [res |-> "Ok", st |-> st, log |-> << >>,
   rv |-> [i \in 1 .. Len(queries) |->
             IF queries[i] \in SUPPORTS_STANDARDS
               THEN [tag |-> "Support"]
               ELSE State_have_implementors(st, queries[i])]]

\* contract_view_address: the record looked up is that of ctx.sender(); the
\* address of the parameter is never read.
contract_view_address(st, sender, address) ==
  IF sender \notin DOMAIN st.address_state
    THEN [res |-> "InvalidAddress", st |-> st, log |-> << >>,
          rv |-> [owned_tokens |-> {}, operators |-> {}]]
    ELSE [res |-> "Ok", st |-> st, log |-> << >>,
          rv |-> [owned_tokens |-> st.address_state[sender].owned_tokens,
                  operators |-> st.address_state[sender].operators]]

\* The host committing the working state and the log of a failed call.
HostCommit_KeepOnError(st, out) ==
  [res |-> out.res, st |-> out.st, log |-> out.log]

\* What the chain keeps of a receive call (the #[receive] entrypoints return
\* the error to the host): the working state and the log of a call that
\* returns Ok, the state before the call and no log when it returns an error.
HostCommit(st, out) ==
  [res |-> out.res,
   st |-> IF out.res = "Ok" THEN out.st ELSE st,
   log |-> IF out.res = "Ok" THEN out.log ELSE << >>]

\* One transaction calling an entrypoint.
call_mint(st, sender, block_time, params) ==
  HostCommit(st, contract_mint(st, sender, block_time, params))

call_transfer(st, sender, transfers) ==
  HostCommit(st, contract_transfer(st, sender, transfers))

call_update_operator(st, sender, params) ==
  HostCommit(st, contract_update_operator(st, sender, params))

call_set_minter(st, sender, minter) ==
  HostCommit(st, contract_set_minter(st, sender, minter))

call_set_implementor(st, sender, params) ==
  HostCommit(st, contract_set_implementor(st, sender, params))

call_balance_of(st, queries) ==
  HostCommit(st, contract_balance_of(st, queries))

call_operator_of(st, queries) ==
  HostCommit(st, contract_operator_of(st, queries))

call_token_metadata(st, token_ids) ==
  HostCommit(st, contract_token_metadata(st, token_ids))

call_supports(st, queries) ==
  HostCommit(st, contract_supports(st, queries))

call_view_address(st, sender, address) ==
  HostCommit(st, contract_view_address(st, sender, address))

\* The state, the log and the outcome a transaction leaves behind.
Receive(op, kept) ==
  /\ state' = kept.st
  /\ events' = kept.log
  /\ last' = [op |-> op, res |-> kept.res]
  /\ UNCHANGED <<now, latest, wire, voting, cast>>

\* ------------------------------------------------------------ event codec
\* An event on the wire is a sequence of words: the tag byte, then the
\* fields of the variant's payload in the order the struct declares them.
U8_MIN == 0
U8_MAX == 255

\* The tags of the CIS-2 library events (concordium_cis2).
TRANSFER_EVENT_TAG == U8_MAX
MINT_EVENT_TAG == U8_MAX - 1
UPDATE_OPERATOR_EVENT_TAG == U8_MAX - 3
TOKEN_METADATA_EVENT_TAG == U8_MAX - 4

MINTED_EVENT_TAG == U8_MIN

DEPLOY_EVENT_TAG == U8_MIN + 1

ParseError == [res |-> "ParseError"]

TransferEvent_serial(e) == <<e.token_id, e.amount, e.from, e.to>>
MintEvent_serial(e) == <<e.token_id, e.amount, e.owner>>
TokenMetadataEvent_serial(e) == <<e.token_id, e.url>>
MintedEvent_serial(e) == <<e.token_id, e.mint_count, e.timestamp, e.url>>
DeployEvent_serial(e) ==
  <<e.name, e.symbol, e.contract_uri, e.minter, e.mint_start, e.mint_deadline,
    e.max_total_supply>>
UpdateOperatorEvent_serial(e) == <<e.update, e.owner, e.operator>>

TransferEvent_deserial(source) ==
  IF Len(source) < 4 THEN ParseError
  ELSE [res |-> "Ok",
        event |-> [tag |-> "Transfer", token_id |-> source[1], amount |-> source[2],
                   from |-> source[3], to |-> source[4]]]

MintEvent_deserial(source) ==
  IF Len(source) < 3 THEN ParseError
  ELSE [res |-> "Ok",
        event |-> [tag |-> "Mint", token_id |-> source[1], amount |-> source[2],
                   owner |-> source[3]]]

TokenMetadataEvent_deserial(source) ==
  IF Len(source) < 2 THEN ParseError
  ELSE [res |-> "Ok",
        event |-> [tag |-> "TokenMetadata", token_id |-> source[1], url |-> source[2]]]

\* MintedEvent::deserial reading timestamp before mint_count.
MintedEvent_deserial_Swapped(source) ==
  IF Len(source) < 4 THEN ParseError
  ELSE [res |-> "Ok",
        event |-> [tag |-> "Minted", token_id |-> source[1], mint_count |-> source[3],
                   timestamp |-> source[2], url |-> source[4]]]

MintedEvent_deserial(source) ==
  IF Len(source) < 4 THEN ParseError
  ELSE [res |-> "Ok",
        event |-> [tag |-> "Minted", token_id |-> source[1], mint_count |-> source[2],
                   timestamp |-> source[3], url |-> source[4]]]

DeployEvent_deserial(source) ==
  IF Len(source) < 7 THEN ParseError
  ELSE [res |-> "Ok",
        event |-> [tag |-> "Deploy", name |-> source[1], symbol |-> source[2],
                   contract_uri |-> source[3], minter |-> source[4],
                   mint_start |-> source[5], mint_deadline |-> source[6],
                   max_total_supply |-> source[7]]]

\* impl Serial for ContractEvent
ContractEvent_serial(e) ==
  CASE e.tag = "Transfer" -> <<TRANSFER_EVENT_TAG>> \o TransferEvent_serial(e)
    [] e.tag = "Mint" -> <<MINT_EVENT_TAG>> \o MintEvent_serial(e)
    [] e.tag = "TokenMetadata" -> <<TOKEN_METADATA_EVENT_TAG>> \o TokenMetadataEvent_serial(e)
    [] e.tag = "Minted" -> <<MINTED_EVENT_TAG>> \o MintedEvent_serial(e)
    [] e.tag = "Deploy" -> <<DEPLOY_EVENT_TAG>> \o DeployEvent_serial(e)

\* impl Deserial for ContractEvent: the first arm of the match whose tag
\* equals the byte read decides.
ContractEvent_deserial(source) ==
  IF Len(source) = 0 THEN ParseError
  ELSE LET tag == Head(source)
           rest == Tail(source)
       IN  IF tag = TRANSFER_EVENT_TAG THEN TransferEvent_deserial(rest)
           ELSE IF tag = MINT_EVENT_TAG THEN MintEvent_deserial(rest)
           ELSE IF tag = TOKEN_METADATA_EVENT_TAG THEN TokenMetadataEvent_deserial(rest)
           ELSE IF tag = MINTED_EVENT_TAG THEN MintedEvent_deserial(rest)
           ELSE IF tag = DEPLOY_EVENT_TAG THEN DeployEvent_deserial(rest)
           ELSE ParseError

\* Serial for the library's Cis2Event, the type contract_transfer and
\* contract_update_operator hand to the logger.
Cis2Event_serial(e) ==
  CASE e.tag = "Transfer" -> <<TRANSFER_EVENT_TAG>> \o TransferEvent_serial(e)
    [] e.tag = "UpdateOperator" ->
         <<UPDATE_OPERATOR_EVENT_TAG>> \o UpdateOperatorEvent_serial(e)

\* The bytes logger.log wrote for a logged event: transfer and updateOperator
\* log a Cis2Event, init and mint a ContractEvent.
LoggedBytes(e) ==
  IF e.tag \in {"Transfer", "UpdateOperator"}
    THEN Cis2Event_serial(e)
    ELSE ContractEvent_serial(e)

\* ------------------------------------------------------------ inputs
SeqsUpTo(S, n) == UNION {[1 .. k -> S] : k \in 0 .. n}

\* The addresses tokens are minted to.
MintOwners == {"a2", "k1"}

\* mint: every combination of three arrays of up to MaxBatch elements.
MintParamsSet ==
  [owners : SeqsUpTo(MintOwners, MaxBatch),
   tokens : SeqsUpTo(Tokens, MaxBatch),
   token_uris : SeqsUpTo(Uris, MaxBatch)]

\* mint: three arrays of one length, up to MaxBatch tokens, one uri.
MintParamsEven ==
  UNION {[owners : [1 .. k -> MintOwners],
          tokens : [1 .. k -> Tokens],
          token_uris : [1 .. k -> {"u1"}]] : k \in 0 .. MaxBatch}

Amounts == {0, 1, 2}

\* `hook` is read only when `to` is a contract.
TransferEntries ==
  {e \in [token_id : Tokens, amount : Amounts, from : Addresses,
          to : Addresses, hook : {"accept", "reject"}] :
     e.to \in Accounts => e.hook = "accept"}

\* transfer: every single entry, and every list of up to MaxBatch entries
\* of amount 1 whose hooks accept.
TransferParamsSet ==
  {<<e>> : e \in TransferEntries}
    \cup SeqsUpTo({x \in TransferEntries : x.amount = 1 /\ x.hook = "accept"}, MaxBatch)

\* transfer: one entry of amount 1 per call.
TransferParamsOne == {<<e>> : e \in {x \in TransferEntries : x.amount = 1}}

\* transfer: every single entry.
TransferParamsSingles == {<<e>> : e \in TransferEntries}

\* transfer: an entry of amount 1 whose hook accepts, then an entry of
\* amount 1 whose receiving contract rejects.
TransferParamsHook ==
  {<<e1, e2>> : e1 \in {x \in TransferEntries : x.amount = 1 /\ x.hook = "accept"},
                e2 \in {x \in TransferEntries : x.amount = 1 /\ x.hook = "reject"}}

\* transfer: an entry of amount 1 whose receiving contract rejects, then an
\* entry of amount 1 whose hook accepts.
TransferParamsHookFirst ==
  {<<e1, e2>> : e1 \in {x \in TransferEntries : x.amount = 1 /\ x.hook = "reject"},
                e2 \in {x \in TransferEntries : x.amount = 1 /\ x.hook = "accept"}}

OperatorUpdates == [update : {"Add", "Remove"}, operator : Addresses]

\* updateOperator: every list of up to MaxBatch updates naming a1 or k1.
UpdateOperatorParamsSet ==
  SeqsUpTo({x \in OperatorUpdates : x.operator \in {"a1", "k1"}}, MaxBatch)

\* updateOperator: one update naming account a1 per call.
UpdateOperatorParamsOne ==
  {<<u>> : u \in {x \in OperatorUpdates : x.operator = "a1"}}

BalanceOfQueries == [token_id : Tokens, address : Addresses]

\* balanceOf: one query per call.
BalanceOfParamsOne == {<<q>> : q \in BalanceOfQueries}

OperatorOfQueries == [owner : Addresses, address : Addresses]

\* operatorOf: every list of up to MaxBatch queries.
OperatorOfParamsSet == SeqsUpTo(OperatorOfQueries, MaxBatch)

\* operatorOf: one query per call.
OperatorOfParamsOne == {<<q>> : q \in OperatorOfQueries}

\* tokenMetadata: one token per call.
TokenMetadataParamsOne == {<<t>> : t \in Tokens}

StandardIds == {"CIS-0", "CIS-2", "CIS-X"}

SetImplementorsParamsSet ==
  [id : StandardIds, implementors : SeqsUpTo(Contracts, 1)]

SetImplementorsParamsOne ==
  {[id |-> "CIS-X", implementors |-> <<"k1">>]}

\* The contract addresses named as implementors.
Implementors == {"k1", "k2"}

\* setImplementors: every standard with every list of up to MaxBatch addresses.
SetImplementorsParamsLists ==
  [id : StandardIds, implementors : SeqsUpTo(Implementors, MaxBatch)]

\* supports: every list of up to MaxBatch standards.
SupportsParamsSet == SeqsUpTo(StandardIds, MaxBatch)

\* supports: one standard per call.
SupportsParamsOne == {<<id>> : id \in StandardIds}

\* transfer: token t from A to B and then from B to C, and the same two
\* entries the other way round.
TransferParamsChain ==
  UNION {LET ab == [token_id |-> t, amount |-> 1, from |-> A, to |-> B, hook |-> "accept"]
             bc == [token_id |-> t, amount |-> 1, from |-> B, to |-> C, hook |-> "accept"]
         IN  {<<ab, bc>>, <<bc, ab>>} :
           t \in Tokens, A \in Addresses, B \in Addresses, C \in Addresses}

\* transfer: token t sent to contract k1, whose hook calls back, alone or
\* followed by an entry that moves t out of k1 or out of HookTarget.
TransferParamsReentry ==
  LET first == [token_id : Tokens, amount : {1}, from : Addresses, to : Contracts,
                hook : ReentrantHooks]
      second == [token_id : Tokens, amount : {1}, from : Contracts \cup {HookTarget},
                 to : Addresses, hook : {"accept"}]
  IN  {<<e1>> : e1 \in first}
        \cup {<<p[1], p[2]>> : p \in {q \in first \X second : q[1].token_id = q[2].token_id}}

\* Events of the five variants of ContractEvent.
ContractEvents ==
  [tag : {"Transfer"}, token_id : Tokens, amount : {0, 1}, from : Addresses,
   to : Addresses]
  \cup [tag : {"Mint"}, token_id : Tokens, amount : {1}, owner : Addresses]
  \cup [tag : {"TokenMetadata"}, token_id : Tokens, url : Uris]
  \cup [tag : {"Minted"}, token_id : Tokens, mint_count : 1 .. MaxToken,
        timestamp : Times, url : Uris]
  \cup [tag : {"Deploy"}, name : {"n1"}, symbol : {"s1"}, contract_uri : {"c1"},
        minter : Accounts, mint_start : Times, mint_deadline : Times,
        max_total_supply : 1 .. MaxToken]

\* The tag bytes of the codec, the tags of the two library events it has no
\* arm for (UpdateOperator, Burn), and a byte no event uses.
TagBytes ==
  {TRANSFER_EVENT_TAG, MINT_EVENT_TAG, TOKEN_METADATA_EVENT_TAG, MINTED_EVENT_TAG,
   DEPLOY_EVENT_TAG, UPDATE_OPERATOR_EVENT_TAG, U8_MAX - 2, U8_MIN + 2}

\* Bytes received from elsewhere: nothing at all, or a tag byte followed by
\* up to MaxBatch words.
RawBytes ==
  {<<t>> \o body : t \in TagBytes, body \in SeqsUpTo(Tokens, MaxBatch)} \cup {<< >>}

\* ------------------------------------------------------------ actions
\* InitParams with the given mint windows and supply caps.
InitParamsSet(windows, caps) ==
  {[name |-> "n1", symbol |-> "s1", contract_uri |-> "c1", minter |-> MINTER,
    mint_start |-> w[1], mint_deadline |-> w[2], max_total_supply |-> cap] :
     w \in windows, cap \in caps}

\* Nothing written, nothing decoded.
WireIdle ==
  [event |-> [tag |-> "None"], bytes |-> << >>, parsed |-> [res |-> "None"]]

\* ------------------------------------------------- the voting contract
\* A successful vote is recorded in the history up to MaxVotes times per
\* account.
MaxVotes == 2

VotingOptions == {"o1", "o2"}

\* init of contract voting
voting_init(param) ==
  [description |-> param.description,
   options |-> param.options,
   end_time |-> param.end_time,
   ballots |-> << >>]

\* options.iter().position(|option| *option == voting_option), counted from 0
position(options, voting_option) ==
  LET hits == {i \in 1 .. Len(options) : options[i] = voting_option}
  IN  IF hits = {}
        THEN [some |-> FALSE, index |-> 0]
        ELSE [some |-> TRUE, index |-> (CHOOSE i \in hits : \A j \in hits : i <= j) - 1]

\* vote that keeps the ballot an account already has.
vote_KeepsFirstBallot(st, sender, slot_time, parameter) ==
  LET found == position(st.options, parameter.value)
      voting_index == found.index
  IN  IF st.end_time < slot_time
        THEN [res |-> "VotingFinished", st |-> st]
      ELSE IF sender \in Contracts
        THEN [res |-> "ContractVoter", st |-> st]
      ELSE IF ~parameter.parsed
        THEN [res |-> "ParseParams", st |-> st]
      ELSE IF ~found.some
        THEN [res |-> "InvalidVotingOption", st |-> st]
      ELSE IF sender \in DOMAIN st.ballots
        THEN [res |-> "Ok", st |-> st]
      ELSE [res |-> "Ok",
            st |-> [st EXCEPT !.ballots = MapInsert(@, sender, voting_index)]]

\* vote: the result and the state it leaves.
vote(st, sender, slot_time, parameter) ==
  LET found == position(st.options, parameter.value)
      \* index as u32: an index into options, far below 2^32
      voting_index == found.index
  IN  IF st.end_time < slot_time
        THEN [res |-> "VotingFinished", st |-> st]
      ELSE IF sender \in Contracts
        THEN [res |-> "ContractVoter", st |-> st]
      ELSE IF ~parameter.parsed
        THEN [res |-> "ParseParams", st |-> st]
      ELSE IF ~found.some
        THEN [res |-> "InvalidVotingOption", st |-> st]
      ELSE [res |-> "Ok",
            st |-> [st EXCEPT !.ballots = MapInsert(@, sender, voting_index)]]

\* The loop of view over the ballots: one more for the option of each ballot.
RECURSIVE TallyLoop(_, _, _)
TallyLoop(st, left, tally) ==
  IF left = {}
    THEN tally
    ELSE LET acc == CHOOSE a \in left : TRUE
             voting_option == st.options[st.ballots[acc] + 1]
             \* a u32 that counts ballots, one per account at most
             count == IF voting_option \in DOMAIN tally
                        THEN tally[voting_option] + 1
                        ELSE 1
         IN  TallyLoop(st, left \ {acc}, MapInsert(tally, voting_option, count))

\* view: the VotingView returned.
view(st) ==
  [res |-> "Ok",
   rv |-> [description |-> st.description,
           options |-> st.options,
           end_time |-> st.end_time,
           tally |-> TallyLoop(st, DOMAIN st.ballots, << >>)]]

\* InitParameter: up to two options, repeated ones among them, and every
\* end time.
InitParameters ==
  [description : {"d1"}, options : SeqsUpTo(VotingOptions, 2), end_time : Times]

\* The poll the voting contract runs beside the token ledger.
InitParameterOpen ==
  [description |-> "d1", options |-> <<"o1", "o2">>, end_time |-> MaxTime]

\* vote's parameter: an option name, or bytes that do not parse as a String.
VoteParameters ==
  [parsed : {TRUE}, value : VotingOptions] \cup {[parsed |-> FALSE, value |-> ""]}

\* init of contract voting with one of the given parameters.
VotingInitWith(P) ==
  /\ \E param \in P : voting = voting_init(param)
  /\ cast = << >>

\* contract_init with the given mint windows and supply caps.
LedgerInitWith(windows, caps) ==
  /\ \E params \in InitParamsSet(windows, caps) :
       LET r == contract_init(params)
       IN  /\ state = r.st
           /\ events = r.log
           /\ last = [op |-> "init", res |-> r.res]
  /\ now = 0
  /\ latest = {}
  /\ wire = WireIdle

\* Both contracts initialised, the poll open until MaxTime.
InitWith(windows, caps) ==
  /\ LedgerInitWith(windows, caps)
  /\ VotingInitWith({InitParameterOpen})

\* The votes of sender the history holds.
CastBy(sender) == IF sender \in DOMAIN cast THEN cast[sender] ELSE << >>

\* vote, sent by one of S with one of P.
Vote(S, P) ==
  \E sender \in S, parameter \in P :
    LET r == vote(voting, sender, now, parameter)
    IN  /\ Len(CastBy(sender)) < MaxVotes
        /\ voting' = IF r.res = "Ok" THEN r.st ELSE voting
        /\ cast' = IF r.res = "Ok"
                     THEN MapInsert(cast, sender,
                                    Append(CastBy(sender), r.st.ballots[sender]))
                     ELSE cast
        /\ last' = [op |-> "vote", res |-> r.res]
        /\ UNCHANGED <<state, now, events, latest, wire>>

\* view
View ==
  /\ last' = [op |-> "view", res |-> view(voting).res]
  /\ UNCHANGED <<state, now, events, latest, wire, voting, cast>>

\* A window [1, MaxTime) and an inverted one (init checks neither).
Init == InitWith({<<1, MaxTime>>, <<MaxTime, 1>>}, 1 .. MaxToken)

Mint(S, P) ==
  \E sender \in S, params \in P :
    Receive("mint", call_mint(state, sender, now, params))

Transfer(S, P) ==
  \E sender \in S, transfers \in P :
    Receive("transfer", call_transfer(state, sender, transfers))

\* The history after the entries of params, sent by sender, in list order:
\* for an operator the list names, its last entry decides.
MostRecent(L, sender, params) ==
  {p \in Addresses \X Addresses :
     LET ups == {i \in 1 .. Len(params) : params[i].operator = p[2]}
     IN  IF p[1] = sender /\ ups # {}
           THEN params[CHOOSE i \in ups : \A j \in ups : j <= i].update = "Add"
           ELSE p \in L}

UpdateOperator(S, P) ==
  \E sender \in S, params \in P :
    LET kept == call_update_operator(state, sender, params)
    IN  /\ state' = kept.st
        /\ events' = kept.log
        /\ last' = [op |-> "updateOperator", res |-> kept.res]
        /\ latest' = IF kept.res = "Ok" THEN MostRecent(latest, sender, params)
                                       ELSE latest
        /\ UNCHANGED <<now, wire, voting, cast>>

SetMinter(S) ==
  \E sender \in S, minter \in Accounts :
    Receive("setMinter", call_set_minter(state, sender, minter))

SetImplementors(S, P) ==
  \E sender \in S, params \in P :
    Receive("setImplementors", call_set_implementor(state, sender, params))

BalanceOf(P) ==
  \E queries \in P :
    Receive("balanceOf", call_balance_of(state, queries))

OperatorOf(P) ==
  \E queries \in P :
    Receive("operatorOf", call_operator_of(state, queries))

TokenMetadata(P) ==
  \E token_ids \in P :
    Receive("tokenMetadata", call_token_metadata(state, token_ids))

Supports(P) ==
  \E queries \in P :
    Receive("supports", call_supports(state, queries))

\* to_bytes(&event) for an event of ContractEvent.
Serial(E) ==
  /\ \E e \in E :
       wire' = [event |-> e, bytes |-> ContractEvent_serial(e),
                parsed |-> [res |-> "None"]]
  /\ UNCHANGED <<state, now, events, last, latest, voting, cast>>

\* Bytes arrive that this codec did not write.
Inject(B) ==
  /\ \E b \in B :
       wire' = [event |-> [tag |-> "None"], bytes |-> b, parsed |-> [res |-> "None"]]
  /\ UNCHANGED <<state, now, events, last, latest, voting, cast>>

\* from_bytes::<ContractEvent> on the bytes at hand.
Deserial ==
  /\ wire.parsed.res = "None"
  /\ wire' = [wire EXCEPT !.parsed = ContractEvent_deserial(wire.bytes)]
  /\ UNCHANGED <<state, now, events, last, latest, voting, cast>>

ViewAddress(S, P) ==
  \E sender \in S, address \in P :
    Receive("viewAddress", call_view_address(state, sender, address))

\* A transfer call during which hooks call back: the operators the nested
\* updateOperator calls add enter the history as well.
TransferReentrant(S, P) ==
  \E sender \in S, transfers \in P :
    LET kept == call_transfer(state, sender, transfers)
        added == {<<kept.log[i].owner, kept.log[i].operator>> :
                    i \in {j \in 1 .. Len(kept.log) : kept.log[j].tag = "UpdateOperator"}}
    IN  /\ state' = kept.st
        /\ events' = kept.log
        /\ last' = [op |-> "transfer", res |-> kept.res]
        /\ latest' = latest \cup added
        /\ UNCHANGED <<now, wire, voting, cast>>

\* The chain's block time advances between transactions.
Tick ==
  /\ now < MaxTime
  /\ now' = now + 1
  /\ UNCHANGED <<state, events, last, latest, wire, voting, cast>>

\* Every entrypoint that changes state.
Next ==
  \/ Mint(Addresses, MintParamsEven)
  \/ Transfer(Addresses, TransferParamsOne)
  \/ UpdateOperator({"a2"}, UpdateOperatorParamsOne)
  \/ SetMinter(Addresses)
  \/ SetImplementors(Addresses, SetImplementorsParamsOne)
  \/ BalanceOf(BalanceOfParamsOne)
  \/ OperatorOf(OperatorOfParamsOne)
  \/ TokenMetadata(TokenMetadataParamsOne)
  \/ Supports(SupportsParamsOne)
  \/ ViewAddress(Addresses, Addresses)
  \/ Tick

Spec == Init /\ [][Next]_vars

\* Minting with every parameter, and the calls that decide whether it is allowed.
NextMint ==
  \/ Mint(Addresses, MintParamsSet)
  \/ SetMinter(Addresses)
  \/ Tick

SpecMint == Init /\ [][NextMint]_vars

\* Minting, transfers and operator updates without the admin entrypoints.
NextTransfer ==
  \/ Mint({MINTER}, MintParamsEven)
  \/ Transfer(Addresses, TransferParamsOne \cup TransferParamsHook)
  \/ UpdateOperator({"a2"}, UpdateOperatorParamsOne)
  \/ TokenMetadata(TokenMetadataParamsOne)
  \/ Tick

SpecTransfer == Init /\ [][NextTransfer]_vars

\* Account a2 mints and names its operators, contract k1 adds or removes a1
\* as its operator, and account a1 sends every transfer (as owner, as
\* operator of a2 or k1, or as neither).
InitOperator == InitWith({<<1, MaxTime>>}, {MaxToken})

NextOperator ==
  \/ Mint({MINTER}, MintParamsEven)
  \/ UpdateOperator({"a2"}, UpdateOperatorParamsSet)
  \/ UpdateOperator({"k1"}, UpdateOperatorParamsOne)
  \/ Transfer({"a1"}, TransferParamsSingles)
  \/ OperatorOf(OperatorOfParamsOne)
  \/ Tick

SpecOperator == InitOperator /\ [][NextOperator]_vars

\* The owner-gated entrypoints with every parameter, and the supports query.
NextAdmin ==
  \/ SetImplementors(Addresses, SetImplementorsParamsLists)
  \/ SetMinter(Addresses)
  \/ Supports(SupportsParamsOne)

SpecAdmin == InitOperator /\ [][NextAdmin]_vars

\* The event codec on its own: events are written, bytes arrive, the decoder runs.
NextCodec ==
  \/ Serial(ContractEvents)
  \/ Inject(RawBytes)
  \/ Deserial

SpecCodec == InitOperator /\ [][NextCodec]_vars

\* Account a2 mints and names a1 its operator, contract k1 does the same, and
\* a1 sends lists of two entries that pass one token along.
NextChain ==
  \/ Mint({MINTER}, MintParamsEven)
  \/ UpdateOperator({"a2", "k1"}, UpdateOperatorParamsOne)
  \/ Transfer({"a1"}, TransferParamsChain)
  \/ Tick

SpecChain == InitOperator /\ [][NextChain]_vars

\* Account a2 mints and names a1 its operator; a1 and a2 send tokens to
\* contract k1, whose hook calls back into this contract.
NextReentry ==
  \/ Mint({MINTER}, MintParamsEven)
  \/ UpdateOperator({"a2"}, UpdateOperatorParamsOne)
  \/ TransferReentrant({"a1", "a2"}, TransferParamsReentry)
  \/ Tick

SpecReentry == InitOperator /\ [][NextReentry]_vars

\* The voting contract: votes by accounts and by a contract, for known and
\* unknown options, before and after the end time.
InitVoting ==
  /\ LedgerInitWith({<<1, MaxTime>>}, {MaxToken})
  /\ VotingInitWith(InitParameters)

NextVoting ==
  \/ Vote(Addresses, VoteParameters)
  \/ View
  \/ Tick

SpecVoting == InitVoting /\ [][NextVoting]_vars

\* ------------------------------------------------------------ properties
\* The addresses whose owned_tokens holds token t.
OwnersOf(st, t) ==
  {a \in DOMAIN st.address_state : t \in st.address_state[a].owned_tokens}

\* The addresses recorded as operators of owner.
OperatorsOf(st, owner) ==
  IF owner \in DOMAIN st.address_state THEN st.address_state[owner].operators ELSE {}

InWindow(st, t) == st.mint_start <= t /\ t < st.mint_deadline

\* The three arrays of a mint parameter have one length.
SameLength(params) ==
  /\ Len(params.owners) = Len(params.tokens)
  /\ Len(params.token_uris) = Len(params.tokens)

\* Entry i of the batch names a token id that is in all_tokens or that an
\* earlier entry of the batch names.
IsDuplicateAt(st, params, i) ==
  \/ params.tokens[i] \in st.all_tokens
  \/ \E j \in 1 .. i - 1 : params.tokens[j] = params.tokens[i]

\* C1: sole ownership. In every reachable state a token id is in all_tokens
\* iff exactly one address's owned_tokens holds it; no token has two owners
\* and no owned_tokens set holds a token id outside all_tokens.
C1_SoleOwnership ==
  \A t \in Tokens :
    /\ (t \in state.all_tokens) <=> (Cardinality(OwnersOf(state, t)) = 1)
    /\ Cardinality(OwnersOf(state, t)) <= 1
    /\ (OwnersOf(state, t) # {}) => t \in state.all_tokens

\* A token minted to one address has been transferred to another by the
\* last call while a second token exists.
C1_Witness ==
  /\ last = [op |-> "transfer", res |-> "Ok"]
  /\ Cardinality(state.all_tokens) = 2
  /\ OwnersOf(state, 1) = {"a1"}

\* C3: supply cap. counter never exceeds max_total_supply; a mint call by the
\* minter inside the window, with arrays of one length naming new, distinct
\* token ids, that would push counter past max_total_supply fails with
\* MaxTotalSupplyReached; and after a call that fails so the state is the
\* state before the call.
C3_SupplyCap ==
  /\ state.counter <= state.max_total_supply
  /\ \A sender \in Addresses, params \in MintParamsSet :
       LET r == call_mint(state, sender, now, params)
           n == Len(params.tokens)
           fresh == /\ \A i \in 1 .. n : params.tokens[i] \notin state.all_tokens
                    /\ \A i, j \in 1 .. n : params.tokens[i] = params.tokens[j] => i = j
       IN  /\ r.st.counter <= r.st.max_total_supply
           /\ (r.res = "MaxTotalSupplyReached") => (r.st = state)
           /\ ( /\ matches_account(sender, state.minter)
                /\ InWindow(state, now)
                /\ SameLength(params)
                /\ fresh
                /\ state.counter + n > state.max_total_supply )
              => r.res = "MaxTotalSupplyReached"

\* The last call was a mint refused at the cap, with the counter at the cap.
C3_Witness ==
  /\ last = [op |-> "mint", res |-> "MaxTotalSupplyReached"]
  /\ state.counter = state.max_total_supply
  /\ Cardinality(state.all_tokens) = state.max_total_supply

\* C4: a mint call by the minter inside the window, with arrays of one
\* length, whose first entry naming a token id already in all_tokens or
\* named by an earlier entry of the batch is reached within the cap, fails
\* with TokenIdAlreadyExists and leaves the state as before the call.
C4_DuplicateRejected ==
  \A sender \in Addresses, params \in MintParamsSet :
    LET r == call_mint(state, sender, now, params)
        dups == {i \in 1 .. Len(params.tokens) : IsDuplicateAt(state, params, i)}
    IN  ( /\ matches_account(sender, state.minter)
          /\ InWindow(state, now)
          /\ SameLength(params)
          /\ dups # {}
          /\ \A i \in dups :
               (\A j \in dups : i <= j) =>
                 state.counter + (i - 1) <= state.max_total_supply )
        => (r.res = "TokenIdAlreadyExists" /\ r.st = state)

\* The last call was a mint refused for a duplicate although no token
\* exists: the duplicate was an earlier entry of the same batch.
C4_Witness ==
  /\ last = [op |-> "mint", res |-> "TokenIdAlreadyExists"]
  /\ state.all_tokens = {}
  /\ state.max_total_supply >= 2

MintStep(r) ==
  /\ state' = r.st
  /\ events' = r.log
  /\ last' = [op |-> "mint", res |-> r.res]
  /\ now' = now
  /\ latest' = latest
  /\ wire' = wire

\* C6 as claimed: a mint call by the minter fails with MintingNotStarted when
\* now < mint_start and with MintDeadlineReached when now >= mint_deadline,
\* succeeds only inside the window, and registers no token when it fails so.
C6_MintWindowAsClaimed ==
  [][ \A params \in MintParamsSet :
        LET r == call_mint(state, state.minter, now, params)
        IN  MintStep(r) =>
              /\ (now < state.mint_start) =>
                   (r.res = "MintingNotStarted" /\ r.st = state)
              /\ (now >= state.mint_deadline) =>
                   (r.res = "MintDeadlineReached" /\ r.st = state)
              /\ (r.res = "Ok") => InWindow(state, now) ]_vars

\* C6 amended: MintingNotStarted when now < mint_start; MintDeadlineReached
\* when now >= mint_deadline and now >= mint_start (the start is checked
\* first); success only inside the window; no token registered on failure.
C6_MintWindow ==
  \A params \in MintParamsSet :
    LET r == call_mint(state, state.minter, now, params)
    IN  /\ (now < state.mint_start) => (r.res = "MintingNotStarted" /\ r.st = state)
        /\ (now >= state.mint_deadline /\ now >= state.mint_start)
             => (r.res = "MintDeadlineReached" /\ r.st = state)
        /\ (r.res = "Ok") => InWindow(state, now)

\* The last call was a mint refused at now = mint_deadline, after tokens
\* were minted inside the window.
C6_Witness ==
  /\ last = [op |-> "mint", res |-> "MintDeadlineReached"]
  /\ now = state.mint_deadline
  /\ state.mint_start < state.mint_deadline
  /\ state.all_tokens # {}

\* C7 as claimed: a mint call by the minter inside the window whose three
\* arrays do not have one length fails with ArraysNotSameLength and mints
\* no token.
C7_ArraysNotSameLength ==
  [][ \A params \in MintParamsSet :
        LET r == call_mint(state, state.minter, now, params)
        IN  (MintStep(r) /\ InWindow(state, now) /\ ~SameLength(params))
              => (r.res = "ArraysNotSameLength" /\ r.st = state) ]_vars

\* C8: batch mint is all-or-nothing. A mint call that fails leaves the state
\* as before the call and no event; a mint call that succeeds has registered
\* every zipped entry (all_tokens, token_uris, mint_count, counter, owner).
C8_AllOrNothing ==
  \A sender \in Addresses, params \in MintParamsSet :
    LET r == call_mint(state, sender, now, params)
        n == ZipLen(params)
    IN  /\ (r.res # "Ok") => (r.st = state /\ r.log = << >>)
        /\ (r.res = "Ok") =>
             /\ r.st.counter = state.counter + n
             /\ Len(r.log) = 3 * n
             /\ \A i \in 1 .. n :
                  /\ params.tokens[i] \in r.st.all_tokens
                  /\ r.st.token_uris[params.tokens[i]] = params.token_uris[i]
                  /\ r.st.mint_count[params.tokens[i]] = state.counter + i
                  /\ OwnersOf(r.st, params.tokens[i]) = {params.owners[i]}

\* The last call was a batch whose second entry failed at the cap after its
\* first entry had been minted in the working state: nothing is registered.
C8_Witness ==
  /\ last = [op |-> "mint", res |-> "MaxTotalSupplyReached"]
  /\ state.max_total_supply = 1
  /\ state.counter = 0
  /\ state.all_tokens = {}
  /\ events = << >>

\* C9: registry consistency. In every reachable state the key sets of
\* token_uris and of mint_count both equal all_tokens.
C9_RegistryConsistent ==
  /\ DOMAIN state.token_uris = state.all_tokens
  /\ DOMAIN state.mint_count = state.all_tokens

\* The last call minted a batch, and every token of the universe is registered.
C9_Witness ==
  /\ last = [op |-> "mint", res |-> "Ok"]
  /\ state.all_tokens = Tokens
  /\ Len(events) > 3

\* C10: counter equals the number of token ids in all_tokens in every
\* reachable state, never decreases from one call to the next, and is left
\* unchanged by a call that fails.
C10_CounterCountsTokens ==
  /\ [](state.counter = Cardinality(state.all_tokens))
  /\ [][ /\ state'.counter >= state.counter
         /\ (last'.res # "Ok") => (state'.counter = state.counter) ]_vars

\* The counter stands at 2 after a transfer followed the mints.
C10_Witness ==
  /\ state.counter = 2
  /\ last = [op |-> "transfer", res |-> "Ok"]

\* C2: a transfer call that reaches an entry (the entries before it succeeded)
\* whose sender is neither the entry's `from` nor, in the state the earlier
\* entries left, an operator of `from`, fails with Unauthorized and leaves
\* every owned_tokens set (the whole state) as before the call.
C2_UnauthorizedTransfer ==
  \A sender \in Addresses, transfers \in TransferParamsSet :
    LET r == call_transfer(state, sender, transfers)
        reached(i) ==
          contract_transfer(state, sender, SubSeq(transfers, 1, i - 1))
    IN  (r.res # "Unauthorized" \/ r.st # state) =>
          \A i \in 1 .. Len(transfers) :
            \/ transfers[i].from = sender
            \/ reached(i).res # "Ok"
            \/ sender \in OperatorsOf(reached(i).st, transfers[i].from)

\* The last call was a transfer refused as Unauthorized while a2 owns a
\* token and has a record of operators that a1 was removed from.
C2_Witness ==
  /\ last = [op |-> "transfer", res |-> "Unauthorized"]
  /\ OwnersOf(state, 1) = {"a2"}
  /\ OwnersOf(state, 2) = {"k1"}
  /\ "a2" \in DOMAIN state.address_state
  /\ OperatorsOf(state, "a2") = {}

\* C11: mint sequence numbers are assigned in mint order without gaps. In
\* every reachable state the recorded mint_count values are pairwise distinct
\* and are exactly 1 .. counter; a successful mint call gives its i-th entry
\* the number counter + i and leaves the numbers of the older tokens alone;
\* a failed mint call consumes no number.
C11_MintSequence ==
  /\ {state.mint_count[t] : t \in DOMAIN state.mint_count} = 1 .. state.counter
  /\ \A t, u \in DOMAIN state.mint_count :
       state.mint_count[t] = state.mint_count[u] => t = u
  /\ \A sender \in Addresses, params \in MintParamsSet :
       LET r == call_mint(state, sender, now, params)
       IN  /\ (r.res = "Ok") =>
                /\ \A i \in 1 .. ZipLen(params) :
                     r.st.mint_count[params.tokens[i]] = state.counter + i
                /\ \A t \in DOMAIN state.mint_count :
                     r.st.mint_count[t] = state.mint_count[t]
                /\ r.st.counter = state.counter + ZipLen(params)
           /\ (r.res # "Ok") =>
                /\ r.st.counter = state.counter
                /\ r.st.mint_count = state.mint_count

\* Token 2 was minted first and token 1 second, the last call being a mint.
C11_Witness ==
  /\ last = [op |-> "mint", res |-> "Ok"]
  /\ DOMAIN state.mint_count = {1, 2}
  /\ state.mint_count[2] = 1
  /\ state.mint_count[1] = 2
  /\ state.counter = 2

OwnedBy(st, a) ==
  IF a \in DOMAIN st.address_state THEN st.address_state[a].owned_tokens ELSE {}

\* The step taken is the transfer call whose kept outcome is r.
TransferStep(r) ==
  /\ state' = r.st
  /\ events' = r.log
  /\ last' = [op |-> "transfer", res |-> r.res]
  /\ now' = now
  /\ latest' = latest
  /\ wire' = wire

C14_AmountNotOne ==
  \A sender \in Addresses, e \in TransferEntries :
    LET r == call_transfer(state, sender, <<e>>)
    IN  ( /\ e.amount \notin {0, 1}
          /\ e.token_id \in state.all_tokens
          /\ (e.from = sender \/ sender \in OperatorsOf(state, e.from)) )
        => (r.res = "InsufficientFunds" /\ r.st = state /\ r.log = << >>)

\* The last call, sent by a1, failed with InsufficientFunds in a state where
\* a1 owns every token and is an operator of nobody: every entry of amount 0
\* or 1 that a1 is authorized for succeeds or reaches the hook here, so the
\* entry had another amount and its `from` owned the token.
C14_Witness ==
  /\ last = [op |-> "transfer", res |-> "InsufficientFunds"]
  /\ state.all_tokens = Tokens
  /\ OwnedBy(state, "a1") = Tokens
  /\ \A O \in Addresses : "a1" \notin OperatorsOf(state, O)

\* C15 as claimed: a transfer entry with amount 0 by an authorized caller for
\* an existing token performs no state change and logs nothing.
C15_ZeroTransferSilentAsClaimed ==
  [][ \A sender \in Addresses, e \in TransferEntries :
        LET r == call_transfer(state, sender, <<e>>)
        IN  ( /\ e.amount = 0
              /\ e.token_id \in state.all_tokens
              /\ (e.from = sender \/ sender \in OperatorsOf(state, e.from))
              /\ TransferStep(r) )
            => (r.st = state /\ r.log = << >>) ]_vars

\* C15 amended: such an entry performs no state change (no ownership moves
\* and no address record is created), but it is logged like any other: the
\* call logs one Transfer event with amount 0 for it, and a receiving
\* contract's hook is invoked, whose rejection fails the call with
\* InvokeContractError and nothing logged.
C15_ZeroTransfer ==
  \A sender \in Addresses, e \in TransferEntries :
    LET r == call_transfer(state, sender, <<e>>)
    IN  ( /\ e.amount = 0
          /\ e.token_id \in state.all_tokens
          /\ (e.from = sender \/ sender \in OperatorsOf(state, e.from)) )
        => /\ r.st = state
           /\ IF e.to \in Contracts /\ e.hook = "reject"
                THEN r.res = "InvokeContractError" /\ r.log = << >>
                ELSE /\ r.res = "Ok"
                     /\ r.log = << [tag |-> "Transfer", token_id |-> e.token_id,
                                    amount |-> 0, from |-> e.from, to |-> e.to] >>

\* The last call, sent by a1 as operator of a2, transferred amount 0 of
\* token 1 from a2 to the contract k1: a2 still owns the token, k1 has no
\* address record, and the log of the call holds the Transfer event.
C15_Witness ==
  /\ last = [op |-> "transfer", res |-> "Ok"]
  /\ events = << [tag |-> "Transfer", token_id |-> 1, amount |-> 0,
                  from |-> "a2", to |-> "k1"] >>
  /\ "a1" \in OperatorsOf(state, "a2")
  /\ OwnersOf(state, 1) = {"a2"}
  /\ "k1" \notin DOMAIN state.address_state

\* C16: a transfer entry of non-zero amount by an authorized caller fails
\* with InvalidTokenId when the token id was never minted, and with
\* InsufficientFunds when the token exists and `from` does not hold it (also
\* when `from` has no address record); in both cases the state (every
\* ownership) is as before the call.
C16_TransferErrors ==
  \A sender \in Addresses, e \in TransferEntries :
    LET r == call_transfer(state, sender, <<e>>)
    IN  ( /\ e.amount # 0
          /\ (e.from = sender \/ sender \in OperatorsOf(state, e.from)) )
        => /\ (e.token_id \notin state.all_tokens)
                => (r.res = "InvalidTokenId" /\ r.st = state)
           /\ (e.token_id \in state.all_tokens /\ e.token_id \notin OwnedBy(state, e.from))
                => (r.res = "InsufficientFunds" /\ r.st = state)

\* The last call failed with InsufficientFunds while the only token is owned
\* by k1, the only address with a record: every call sent here carries
\* amount 1, so a `from` that does not hold the token was named.
C16_Witness ==
  /\ last = [op |-> "transfer", res |-> "InsufficientFunds"]
  /\ state.all_tokens = {1}
  /\ OwnersOf(state, 1) = {"k1"}
  /\ DOMAIN state.address_state = {"k1"}

\* C17: when a transfer entry's receiver is a contract, the receive hook is
\* invoked after that entry's ownership change and Transfer event and before
\* the next entry is processed: at the first entry whose hook rejects (the
\* entries before it and its own transfer having succeeded) the call stops
\* with InvokeContractError, its working state and log being those of the
\* entries up to and including that one; and the whole call fails, every
\* ownership change and event of the call being discarded.
C17_ReceiveHook ==
  \A sender \in Addresses,
     transfers \in TransferParamsSingles \cup TransferParamsHook
                     \cup TransferParamsHookFirst :
    LET w == contract_transfer(state, sender, transfers)
        r == call_transfer(state, sender, transfers)
        rejects(i) == transfers[i].to \in Contracts /\ transfers[i].hook = "reject"
        \* the entries up to i, entry i's hook accepting instead
        upTo(i) == [j \in 1 .. i |-> IF j = i THEN [transfers[j] EXCEPT !.hook = "accept"]
                                              ELSE transfers[j]]
        accepted(i) == contract_transfer(state, sender, upTo(i))
    IN  \A i \in 1 .. Len(transfers) :
          ( /\ rejects(i)
            /\ \A j \in 1 .. i - 1 : ~rejects(j)
            /\ accepted(i).res = "Ok" )
          => /\ w.res = "InvokeContractError"
             /\ w.st = accepted(i).st
             /\ w.log = accepted(i).log
             /\ Len(w.log) = i
             /\ w.log[i] = [tag |-> "Transfer", token_id |-> transfers[i].token_id,
                            amount |-> transfers[i].amount,
                            from |-> transfers[i].from, to |-> transfers[i].to]
             /\ (transfers[i].amount = 1) =>
                  OwnersOf(w.st, transfers[i].token_id) = {transfers[i].to}
             /\ r.res = "InvokeContractError"
             /\ r.st = state
             /\ r.log = << >>

\* The last call was failed by the receive hook of k1: both tokens are still
\* with a2, k1 has no address record and no event of the call is kept.
C17_Witness ==
  /\ last = [op |-> "transfer", res |-> "InvokeContractError"]
  /\ OwnedBy(state, "a2") = Tokens
  /\ "k1" \notin DOMAIN state.address_state
  /\ events = << >>

\* A call that ended in an error has kept the state before it and no event.
RolledBack(st, r) == (r.res # "Ok") => (r.st = st /\ r.log = << >>)

C19_OperatorIdempotent ==
  \A sender \in Addresses, u \in OperatorUpdates :
    LET r == call_update_operator(state, sender, <<u>>)
        rr == call_update_operator(state, sender, <<u, u>>)
        ev == [tag |-> "UpdateOperator", owner |-> sender,
               operator |-> u.operator, update |-> u.update]
    IN  /\ ( \/ (u.update = "Add" /\ u.operator \in OperatorsOf(state, sender))
             \/ (u.update = "Remove" /\ u.operator \notin OperatorsOf(state, sender)) )
           => /\ r.res = "Ok"
              /\ OperatorsOf(r.st, sender) = OperatorsOf(state, sender)
              /\ r.st = state
              /\ r.log = <<ev>>
        /\ rr.res = "Ok"
        /\ rr.st = r.st
        /\ rr.log = <<ev, ev>>

\* The last call of a2 added a1 twice while k1 already was an operator: the
\* set holds a1 once, k1 is still in it, and both updates are in the log.
C19_Witness ==
  /\ last = [op |-> "updateOperator", res |-> "Ok"]
  /\ events = << [tag |-> "UpdateOperator", owner |-> "a2", operator |-> "a1",
                  update |-> "Add"],
                 [tag |-> "UpdateOperator", owner |-> "a2", operator |-> "a1",
                  update |-> "Add"] >>
  /\ OperatorsOf(state, "a2") = {"a1", "k1"}

\* C20: in every reachable state an address X is in owner O's operator set,
\* and operatorOf(O, X) answers true, iff the most recent entry for X in a
\* successful updateOperator call sent by O, in call order and list order
\* within a call, was Add; operatorOf answers its queries in query order,
\* never fails and never modifies the state.
C20_OperatorSetIsLatestUpdate ==
  /\ \A O \in Addresses, X \in Addresses :
       (X \in OperatorsOf(state, O)) <=> (<<O, X>> \in latest)
  /\ \A queries \in OperatorOfParamsSet :
       LET q == contract_operator_of(state, queries)
           r == call_operator_of(state, queries)
       IN  /\ q.res = "Ok"
           /\ q.st = state /\ r.st = state /\ r.log = << >>
           /\ Len(q.rv) = Len(queries)
           /\ \A i \in 1 .. Len(queries) :
                q.rv[i] = (<<queries[i].owner, queries[i].address>> \in latest)

\* The last call of a2 added a1 and then removed it again, k1 having been
\* added by an earlier call: k1 is an operator of a2 and a1 is not.
C20_Witness ==
  /\ last = [op |-> "updateOperator", res |-> "Ok"]
  /\ events = << [tag |-> "UpdateOperator", owner |-> "a2", operator |-> "a1",
                  update |-> "Add"],
                 [tag |-> "UpdateOperator", owner |-> "a2", operator |-> "a1",
                  update |-> "Remove"] >>
  /\ latest = {<<"a2", "k1">>}
  /\ OperatorsOf(state, "a2") = {"k1"}

\* ---------------------------------------------------------------- C21
\* What updateOperator leaves alone: the settings, the registry, the mint
\* counter and every implementors list.
SameBesidesAddresses(st, st2) ==
  /\ st2.all_tokens = st.all_tokens
  /\ st2.token_uris = st.token_uris
  /\ st2.mint_count = st.mint_count
  /\ st2.counter = st.counter
  /\ st2.name = st.name
  /\ st2.symbol = st.symbol
  /\ st2.implementors = st.implementors
  /\ st2.minter = st.minter
  /\ st2.mint_start = st.mint_start
  /\ st2.mint_deadline = st.mint_deadline
  /\ st2.max_total_supply = st.max_total_supply

\* C21: an updateOperator call by S changes at most the operator set of S:
\* the operator set of every other address stays as it was (also when S is
\* an operator of that address), and so do every address's owned tokens,
\* all_tokens, the mint counter and the settings.
C21_UpdateOperatorFrame ==
  \A sender \in Addresses, params \in SeqsUpTo(OperatorUpdates, MaxBatch) :
    LET r == call_update_operator(state, sender, params)
    IN  /\ \A X \in Addresses \ {sender} :
             OperatorsOf(r.st, X) = OperatorsOf(state, X)
        /\ \A X \in Addresses : OwnedBy(r.st, X) = OwnedBy(state, X)
        /\ SameBesidesAddresses(state, r.st)

\* k1, itself an operator of a2, has appointed a1: only k1's set changed.
C21_Witness ==
  /\ last = [op |-> "updateOperator", res |-> "Ok"]
  /\ events = << [tag |-> "UpdateOperator", owner |-> "k1", operator |-> "a1",
                  update |-> "Add"] >>
  /\ OperatorsOf(state, "a2") = {"k1"}
  /\ OperatorsOf(state, "k1") = {"a1"}

\* ---------------------------------------------------------------- C22
\* The balances balanceOf answers for token t, added up over the addresses S.
RECURSIVE BalanceSum(_, _, _)
BalanceSum(st, t, S) ==
  IF S = {} THEN 0
  ELSE LET a == CHOOSE x \in S : TRUE
       IN  contract_balance_of(st, << [token_id |-> t, address |-> a] >>).rv[1]
             + BalanceSum(st, t, S \ {a})

\* C22: balanceOf fails with InvalidTokenId when a queried token is not in
\* all_tokens; otherwise it answers, query by query, 1 when the address owns
\* the token and 0 when it does not (an address without a record included),
\* and for every existing token the balances of all addresses add up to 1.
C22_BalanceOf ==
  /\ \A queries \in SeqsUpTo(BalanceOfQueries, MaxBatch) :
       LET r == contract_balance_of(state, queries)
       IN  IF \E i \in 1 .. Len(queries) : queries[i].token_id \notin state.all_tokens
             THEN r.res = "InvalidTokenId"
             ELSE /\ r.res = "Ok"
                  /\ Len(r.rv) = Len(queries)
                  /\ \A i \in 1 .. Len(queries) :
                       r.rv[i] = IF queries[i].token_id \in OwnedBy(state, queries[i].address)
                                   THEN 1 ELSE 0
  /\ \A t \in state.all_tokens : BalanceSum(state, t, Addresses) = 1

\* A balance was answered while a1 owns token 1 and k1 has no record.
C22_Witness ==
  /\ last = [op |-> "balanceOf", res |-> "Ok"]
  /\ state.all_tokens = {1}
  /\ OwnersOf(state, 1) = {"a1"}
  /\ "k1" \notin DOMAIN state.address_state

\* ---------------------------------------------------------------- C23
\* Every token of st is a token of st2 with the mint sequence number it had
\* and the metadata URL tokenMetadata answered for it.
RegistryKept(st, st2) ==
  \A t \in st.all_tokens :
    /\ t \in st2.all_tokens
    /\ st2.mint_count[t] = st.mint_count[t]
    /\ contract_token_metadata(st2, <<t>>).res = "Ok"
    /\ contract_token_metadata(st2, <<t>>).rv = contract_token_metadata(st, <<t>>).rv
    /\ contract_token_metadata(st2, <<t>>).rv = << [url |-> st.token_uris[t], hash |-> "None"] >>

\* C23: registry entries are permanent: whatever call comes next (a mint, a
\* transfer, an operator update, setMinter, setImplementors, by any sender
\* and whether it succeeds or fails), every minted token stays in
\* all_tokens and keeps its metadata URL and its mint sequence number.
C23_RegistryPermanent ==
  \A sender \in Addresses :
    /\ \A params \in MintParamsSet :
         RegistryKept(state, call_mint(state, sender, now, params).st)
    /\ \A transfers \in TransferParamsSingles \cup TransferParamsHook :
         RegistryKept(state, call_transfer(state, sender, transfers).st)
    /\ \A params \in UpdateOperatorParamsSet :
         RegistryKept(state, call_update_operator(state, sender, params).st)
    /\ \A minter \in Accounts :
         RegistryKept(state, call_set_minter(state, sender, minter).st)
    /\ \A params \in SetImplementorsParamsSet :
         RegistryKept(state, call_set_implementor(state, sender, params).st)

\* Token 1, minted first to a2 with uri u1, has been transferred to a1 and
\* is still registered with that uri and sequence number.
C23_Witness ==
  /\ last = [op |-> "transfer", res |-> "Ok"]
  /\ events = << [tag |-> "Transfer", token_id |-> 1, amount |-> 1,
                  from |-> "a2", to |-> "a1"] >>
  /\ 1 \in state.all_tokens
  /\ OwnersOf(state, 1) = {"a1"}
  /\ state.token_uris[1] = "u1"
  /\ state.mint_count[1] = 1

C25_SetImplementors ==
  \A sender \in Addresses, params \in SetImplementorsParamsLists :
    LET r == call_set_implementor(state, sender, params)
    IN  IF sender # OWNER
          THEN r.res = "Unauthorized" /\ r.st = state
          ELSE /\ r.res = "Ok"
               /\ params.id \in DOMAIN r.st.implementors
               /\ r.st.implementors[params.id] = params.implementors
               /\ \A other \in StandardIds \ {params.id} :
                    /\ other \in DOMAIN r.st.implementors <=> other \in DOMAIN state.implementors
                    /\ other \in DOMAIN state.implementors =>
                         r.st.implementors[other] = state.implementors[other]
               /\ [r.st EXCEPT !.implementors = state.implementors] = state

\* setImplementors has succeeded and two standards have lists of their own.
C25_Witness ==
  /\ last = [op |-> "setImplementors", res |-> "Ok"]
  /\ DOMAIN state.implementors = {"CIS-2", "CIS-X"}
  /\ state.implementors["CIS-X"] = <<"k1", "k2">>
  /\ state.implementors["CIS-2"] = <<"k2">>

\* ---------------------------------------------------------------- C26
\* The answer of supports for one standard, read off the state.
SupportAnswer(st, id) ==
  IF id \in {"CIS-0", "CIS-2"} THEN [tag |-> "Support"]
  ELSE IF id \in DOMAIN st.implementors
    THEN [tag |-> "SupportBy", addresses |-> st.implementors[id]]
  ELSE [tag |-> "NoSupport"]

\* C26: supports answers, in query order, 'directly supported' for CIS-0 and
\* CIS-2 whatever list is recorded for them, and for any other identifier
\* 'supported by' the list recorded for it when there is one and 'not
\* supported' otherwise; the list recorded is the one the owner's most
\* recent setImplementors for that identifier gave.
C26_Supports ==
  /\ \A queries \in SupportsParamsSet :
       LET r == contract_supports(state, queries)
       IN  /\ r.res = "Ok"
           /\ r.st = state
           /\ Len(r.rv) = Len(queries)
           /\ \A i \in 1 .. Len(queries) : r.rv[i] = SupportAnswer(state, queries[i])
  /\ \A params \in SetImplementorsParamsLists :
       LET st2 == call_set_implementor(state, OWNER, params).st
       IN  contract_supports(st2, <<params.id>>).rv[1] =
             IF params.id \in {"CIS-0", "CIS-2"}
               THEN [tag |-> "Support"]
               ELSE [tag |-> "SupportBy", addresses |-> params.implementors]

\* supports has answered while a list is recorded for CIS-2 (answered
\* 'directly supported' all the same), one for CIS-X and none for CIS-0.
C26_Witness ==
  /\ last = [op |-> "supports", res |-> "Ok"]
  /\ DOMAIN state.implementors = {"CIS-2", "CIS-X"}
  /\ state.implementors["CIS-2"] = <<"k1">>
  /\ state.implementors["CIS-X"] = <<"k2", "k1">>

\* ---------------------------------------------------------------- C27
\* The tag byte the codec writes for each variant of ContractEvent.
VariantTag ==
  [v \in {"Transfer", "Mint", "TokenMetadata", "Minted", "Deploy"} |->
     CASE v = "Transfer" -> TRANSFER_EVENT_TAG
       [] v = "Mint" -> MINT_EVENT_TAG
       [] v = "TokenMetadata" -> TOKEN_METADATA_EVENT_TAG
       [] v = "Minted" -> MINTED_EVENT_TAG
       [] v = "Deploy" -> DEPLOY_EVENT_TAG]

\* C27: the encoding of an event is the tag byte of its variant followed by
\* the payload, and decoding it gives back an event equal to the one
\* encoded, for every variant; the tag bytes of the variants are pairwise
\* distinct; and decoding bytes whose first byte is no variant's tag fails.
C27_CodecRoundTrip ==
  /\ wire.event.tag # "None" =>
       /\ Len(wire.bytes) >= 1
       /\ wire.bytes[1] = VariantTag[wire.event.tag]
       /\ wire.parsed.res # "None" => wire.parsed = [res |-> "Ok", event |-> wire.event]
  /\ \A v1, v2 \in DOMAIN VariantTag : v1 # v2 => VariantTag[v1] # VariantTag[v2]
  /\ (/\ wire.parsed.res # "None"
      /\ Len(wire.bytes) >= 1
      /\ \A v \in DOMAIN VariantTag : wire.bytes[1] # VariantTag[v])
       => wire.parsed = ParseError

\* A Deploy event was encoded and decoded back.
C27_Witness ==
  /\ wire.event.tag = "Deploy"
  /\ wire.event.mint_start = 1
  /\ wire.event.max_total_supply = MaxToken
  /\ wire.bytes[1] = DEPLOY_EVENT_TAG
  /\ wire.parsed = [res |-> "Ok", event |-> wire.event]

\* ---------------------------------------------------------------- C28
\* C28 as claimed: every event in the log of a transaction (Deploy by init;
\* Mint, TokenMetadata and Minted by mint; Transfer by transfer;
\* UpdateOperator by updateOperator) is a variant of the event codec, so that
\* the codec's decoder, given the bytes logged, gives back the event logged.
C28_LoggedEventsDecode ==
  \A i \in 1 .. Len(events) :
    ContractEvent_deserial(LoggedBytes(events[i])) = [res |-> "Ok", event |-> events[i]]

\* ---------------------------------------------------------------- C29
\* C29 as claimed: every transaction that returns Ok and leaves the
\* persisted state changed (a mint, a non-zero transfer, an updateOperator,
\* a setMinter, a setImplementors) has logged at least one event.
C29_NoUnloggedChange ==
  [][(last'.res = "Ok" /\ state' # state) => events' # << >>]_vars

\* ---------------------------------------------------------------- C30
\* C30: init creates an empty ledger (no token, no uri, no mint sequence
\* number, no address record, no implementors list, mint counter 0) whose
\* settings are exactly the minter, mint_start, mint_deadline and
\* max_total_supply given, and logs exactly one event, a Deploy event that
\* carries the init parameters.
C30_Init ==
  /\ \A params \in InitParamsSet(Times \X Times, 1 .. MaxToken) :
       LET r == contract_init(params)
       IN  /\ r.res = "Ok"
           /\ r.st.all_tokens = {}
           /\ DOMAIN r.st.token_uris = {}
           /\ DOMAIN r.st.mint_count = {}
           /\ DOMAIN r.st.address_state = {}
           /\ DOMAIN r.st.implementors = {}
           /\ r.st.counter = 0
           /\ r.st.minter = params.minter
           /\ r.st.mint_start = params.mint_start
           /\ r.st.mint_deadline = params.mint_deadline
           /\ r.st.max_total_supply = params.max_total_supply
           /\ Len(r.log) = 1
           /\ r.log[1].tag = "Deploy"
           /\ [f \in DOMAIN params |-> r.log[1][f]] = params
  /\ last.op = "init" =>
       /\ last.res = "Ok"
       /\ state.all_tokens = {}
       /\ DOMAIN state.address_state = {}
       /\ state.counter = 0
       /\ Len(events) = 1
       /\ events[1].tag = "Deploy"
       /\ events[1].minter = state.minter
       /\ events[1].mint_start = state.mint_start
       /\ events[1].mint_deadline = state.mint_deadline
       /\ events[1].max_total_supply = state.max_total_supply

\* The contract was initialised with the window [MaxTime, 1) and the
\* largest cap, and nothing has been sent to it since.
C30_Witness ==
  /\ last = [op |-> "init", res |-> "Ok"]
  /\ state.counter = 0
  /\ state.mint_start = MaxTime
  /\ state.mint_deadline = 1
  /\ state.max_total_supply = MaxToken
  /\ events = << [tag |-> "Deploy", name |-> "n1", symbol |-> "s1",
                  contract_uri |-> "c1", minter |-> MINTER, mint_start |-> MaxTime,
                  mint_deadline |-> 1, max_total_supply |-> MaxToken] >>

\* ---------------------------------------------------------------- C31
\* C31 as claimed: viewAddress(address), whoever sends it, returns the
\* owned tokens and the operators recorded for the address of its
\* parameter, and leaves the state as it was.
C31_ViewAddressOfParameter ==
  \A sender \in Addresses, address \in DOMAIN state.address_state :
    LET r == contract_view_address(state, sender, address)
    IN  /\ r.res = "Ok"
        /\ r.rv = [owned_tokens |-> state.address_state[address].owned_tokens,
                   operators |-> state.address_state[address].operators]
        /\ r.st = state

MintParamsSingle ==
  {params \in MintParamsSet :
     Len(params.tokens) = 1 /\ Len(params.owners) = 1 /\ Len(params.token_uris) = 1}

AuthorizedFor(st, sender, from) ==
  from = sender \/ State_is_operator(st, sender, from)

\* C33: the entries of a transfer call are executed in list order, each one
\* against the state the entries before it left. For a caller authorized for
\* A and for B, where A owns t and B is another address, the list
\* [A -> B token t, B -> C token t] succeeds, logs the two Transfer events in
\* that order and leaves t owned by C alone; the list the other way round
\* fails with InsufficientFunds (B does not hold t when its entry is run)
\* and changes nothing.
C33_ListOrder ==
  \A sender \in Addresses, t \in Tokens, A \in Addresses, B \in Addresses, C \in Addresses :
    (/\ t \in OwnedBy(state, A)
     /\ A # B
     /\ AuthorizedFor(state, sender, A)
     /\ AuthorizedFor(state, sender, B))
    => LET ab == [token_id |-> t, amount |-> 1, from |-> A, to |-> B, hook |-> "accept"]
           bc == [token_id |-> t, amount |-> 1, from |-> B, to |-> C, hook |-> "accept"]
           r == call_transfer(state, sender, <<ab, bc>>)
           q == call_transfer(state, sender, <<bc, ab>>)
       IN  /\ r.res = "Ok"
           /\ OwnersOf(r.st, t) = {C}
           /\ r.log = <<TransferEventOf(ab), TransferEventOf(bc)>>
           /\ q.res = "InsufficientFunds"
           /\ q.st = state
           /\ q.log = << >>

\* a1, operator of a2, has passed token 1 from a2 to itself and on to k1 in
\* one call.
C33_Witness ==
  /\ last = [op |-> "transfer", res |-> "Ok"]
  /\ events = << [tag |-> "Transfer", token_id |-> 1, amount |-> 1,
                  from |-> "a2", to |-> "a1"],
                 [tag |-> "Transfer", token_id |-> 1, amount |-> 1,
                  from |-> "a1", to |-> "k1"] >>
  /\ OwnersOf(state, 1) = {"k1"}

\* ---------------------------------------------------------------- C34
\* The token set: the registered tokens, their uris, their mint sequence
\* numbers and the mint counter.
TokenSet(st) == <<st.all_tokens, st.token_uris, st.mint_count, st.counter>>

\* C34: the block time never decreases, and once it has reached
\* mint_deadline every step, whichever call it is (a mint by the minter of
\* the moment, after a setMinter as well, included), leaves the block time
\* at or past the deadline and the token set as it was: from then on the
\* token set is the same in every later state.
C34_FrozenAfterDeadline ==
  [][ /\ now' >= now
      /\ now >= state.mint_deadline =>
           /\ now' >= state'.mint_deadline
           /\ TokenSet(state') = TokenSet(state) ]_vars

\* Past the deadline, with a token registered, the owner has made itself
\* minter and its mint was refused.
C34_Witness ==
  /\ last = [op |-> "mint", res |-> "MintDeadlineReached"]
  /\ now >= state.mint_deadline
  /\ state.mint_start < state.mint_deadline
  /\ state.minter = OWNER
  /\ state.all_tokens = {1}
  /\ state.counter < state.max_total_supply

\* ---------------------------------------------------------------- C35
\* The tokens named by the entries of a transfer call.
NamedTokens(transfers) == {transfers[i].token_id : i \in 1 .. Len(transfers)}

\* The addresses the entries of a transfer call send to.
Receivers(transfers) == {transfers[i].to : i \in 1 .. Len(transfers)}

\* C35: a successful transfer changes nothing but the ownership of the
\* tokens it names: all_tokens, the uris, the mint sequence numbers, the
\* mint counter, the implementors and the settings stay as they were, every
\* address keeps its operator set and the tokens it owned that the call does
\* not name, no address record disappears, and a record the call adds
\* belongs to a receiver and has no operators.
C35_TransferFrame ==
  \A sender \in Addresses,
     transfers \in TransferParamsSingles \cup TransferParamsHook \cup TransferParamsChain :
    LET r == call_transfer(state, sender, transfers)
    IN  r.res = "Ok" =>
          /\ SameBesidesAddresses(state, r.st)
          /\ \A X \in Addresses :
               /\ OperatorsOf(r.st, X) = OperatorsOf(state, X)
               /\ OwnedBy(r.st, X) \ NamedTokens(transfers)
                    = OwnedBy(state, X) \ NamedTokens(transfers)
          /\ DOMAIN state.address_state \subseteq DOMAIN r.st.address_state
          /\ \A X \in DOMAIN r.st.address_state \ DOMAIN state.address_state :
               /\ X \in Receivers(transfers)
               /\ r.st.address_state[X].operators = {}

\* a2 has sent token 1 to k1 and keeps token 2 and its operator a1; k1 has
\* a record without operators.
C35_Witness ==
  /\ last = [op |-> "transfer", res |-> "Ok"]
  /\ events = << [tag |-> "Transfer", token_id |-> 1, amount |-> 1,
                  from |-> "a2", to |-> "k1"] >>
  /\ OwnedBy(state, "a2") = {2}
  /\ OperatorsOf(state, "a2") = {"a1"}
  /\ "k1" \in DOMAIN state.address_state
  /\ state.address_state["k1"] = [owned_tokens |-> {1}, operators |-> {}]

\* ---------------------------------------------------------------- C36
\* Sole ownership and registry consistency of a ledger state.
LedgerInvariants(st) ==
  /\ \A t \in st.all_tokens : Cardinality(OwnersOf(st, t)) = 1
  /\ \A a \in DOMAIN st.address_state : st.address_state[a].owned_tokens \subseteq st.all_tokens
  /\ DOMAIN st.token_uris = st.all_tokens
  /\ DOMAIN st.mint_count = st.all_tokens

\* The entries up to entry k, the hook of entry k answering at once: the
\* call as far as the moment the hook of entry k is invoked.
BeforeHook(transfers, k) ==
  [i \in 1 .. k |-> IF i = k THEN [transfers[i] EXCEPT !.hook = "accept"]
                              ELSE transfers[i]]

\* C36: a receiving contract calling back into the ledger while its hook
\* runs is safe. The nested call sees the ownership change of the entry
\* already made (the contract can send on the token it has just received),
\* the entries after it are run against the state the nested call left (the
\* token can be moved on from where the nested call put it and no longer
\* from the contract; an operator the nested call appointed is an operator
\* for the next entry), and sole ownership and registry consistency hold
\* when each hook is invoked, after each entry and after the call.
C36_Reentrancy ==
  \A sender \in Addresses, transfers \in TransferParamsReentry :
    LET r == call_transfer(state, sender, transfers)
        e1 == transfers[1]
        t == e1.token_id
        ready == AuthorizedFor(state, sender, e1.from) /\ t \in OwnedBy(state, e1.from)
    IN  /\ LedgerInvariants(r.st)
        /\ \A k \in 1 .. Len(transfers) :
             /\ LedgerInvariants(contract_transfer(state, sender, SubSeq(transfers, 1, k)).st)
             /\ LedgerInvariants(contract_transfer(state, sender, BeforeHook(transfers, k)).st)
        /\ (ready /\ Len(transfers) = 1 /\ e1.hook = "forward") =>
             /\ r.res = "Ok"
             /\ OwnersOf(r.st, t) = {HookTarget}
             /\ r.log = <<TransferEventOf(e1), TransferEventOf(HookForward(e1))>>
        /\ (ready /\ Len(transfers) = 2 /\ e1.hook = "forward") =>
             LET e2 == transfers[2]
             IN  IF e2.from = HookTarget
                   THEN IF AuthorizedFor(state, sender, HookTarget)
                          THEN r.res = "Ok" /\ OwnersOf(r.st, t) = {e2.to}
                          ELSE r.res = "Unauthorized" /\ r.st = state
                   ELSE IF AuthorizedFor(state, sender, e2.from)
                          THEN r.res = "InsufficientFunds" /\ r.st = state
                          ELSE r.res = "Unauthorized" /\ r.st = state
        /\ (ready /\ Len(transfers) = 2 /\ e1.hook = "appoint"
              /\ transfers[2].from = e1.to) =>
             IF sender = HookTarget \/ AuthorizedFor(state, sender, e1.to)
               THEN /\ r.res = "Ok"
                    /\ OwnersOf(r.st, t) = {transfers[2].to}
                    /\ HookTarget \in OperatorsOf(r.st, e1.to)
               ELSE r.res = "Unauthorized" /\ r.st = state

\* a1, operator of a2, sent token 1 from a2 to k1, whose hook sent it on to
\* a1, and moved it from a1 back to a2 in the same call.
C36_Witness ==
  /\ last = [op |-> "transfer", res |-> "Ok"]
  /\ events = << [tag |-> "Transfer", token_id |-> 1, amount |-> 1,
                  from |-> "a2", to |-> "k1"],
                 [tag |-> "Transfer", token_id |-> 1, amount |-> 1,
                  from |-> "k1", to |-> "a1"],
                 [tag |-> "Transfer", token_id |-> 1, amount |-> 1,
                  from |-> "a1", to |-> "a2"] >>
  /\ OwnersOf(state, 1) = {"a2"}

\* ---------------------------------------------------------------- C37
\* C37: operator rights belong to the owner and do not travel with a token.
\* Where B is an operator of A, token t is held by another address C, and B
\* is neither C nor an operator of C, B cannot move t: a transfer of t from
\* C sent by B fails with Unauthorized and one from A fails with
\* InsufficientFunds, the state kept. Every token A holds, whenever
\* acquired, B can move.
C37_OperatorOfOwner ==
  \A B \in Addresses, A \in Addresses, t \in Tokens, to \in Addresses :
    B \in OperatorsOf(state, A) =>
      LET entry(from) == [token_id |-> t, amount |-> 1, from |-> from, to |-> to,
                          hook |-> "accept"]
          fromA == call_transfer(state, B, <<entry(A)>>)
      IN  /\ \A C \in Addresses \ {A, B} :
               (t \in OwnedBy(state, C) /\ B \notin OperatorsOf(state, C)) =>
                 LET fromC == call_transfer(state, B, <<entry(C)>>)
                 IN  /\ fromC.res = "Unauthorized"
                     /\ fromC.st = state
                     /\ fromA.res = "InsufficientFunds"
                     /\ fromA.st = state
          /\ t \in OwnedBy(state, A) =>
               /\ fromA.res = "Ok"
               /\ OwnersOf(fromA.st, t) = {to}

\* a1, operator of a2 and not of k1, has moved token 1 from a2 to k1, and
\* a2 holds token 2.
C37_Witness ==
  /\ last = [op |-> "transfer", res |-> "Ok"]
  /\ events = << [tag |-> "Transfer", token_id |-> 1, amount |-> 1,
                  from |-> "a2", to |-> "k1"] >>
  /\ "a1" \in OperatorsOf(state, "a2")
  /\ "a1" \notin OperatorsOf(state, "k1")
  /\ OwnersOf(state, 1) = {"k1"}
  /\ 2 \in OwnedBy(state, "a2")

\* ---------------------------------------------------------------- C38
\* The settings given at initialisation.
Settings(st) == <<st.minter, st.mint_start, st.mint_deadline, st.max_total_supply>>

\* C38: mint_start, mint_deadline and max_total_supply stay what init made
\* them whatever is called; the minter changes only through a successful
\* setMinter, which only the contract owner can send; mint, transfer,
\* updateOperator and setImplementors, successful or not, leave every
\* setting as it was.
C38_SettingsFrame ==
  \A sender \in Addresses :
    /\ \A params \in MintParamsEven :
         Settings(call_mint(state, sender, now, params).st) = Settings(state)
    /\ \A transfers \in TransferParamsSingles \cup TransferParamsReentry :
         Settings(call_transfer(state, sender, transfers).st) = Settings(state)
    /\ \A params \in UpdateOperatorParamsSet :
         Settings(call_update_operator(state, sender, params).st) = Settings(state)
    /\ \A params \in SetImplementorsParamsSet :
         Settings(call_set_implementor(state, sender, params).st) = Settings(state)
    /\ \A minter \in Accounts :
         LET r == call_set_minter(state, sender, minter)
         IN  /\ r.st.mint_start = state.mint_start
             /\ r.st.mint_deadline = state.mint_deadline
             /\ r.st.max_total_supply = state.max_total_supply
             /\ r.st.minter # state.minter => (r.res = "Ok" /\ sender = OWNER)
             /\ r.res = "Ok" => r.st.minter = minter
             /\ r.res # "Ok" => r.st = state

\* The owner has made itself the minter and minted token 1 within the
\* window and cap init set.
C38_Witness ==
  /\ last = [op |-> "mint", res |-> "Ok"]
  /\ state.minter = OWNER
  /\ OWNER # MINTER
  /\ state.all_tokens = {1}
  /\ Settings(state) = <<OWNER, 1, MaxTime, MaxToken>>

\* ---------------------------------------------------------------- C39
\* C39: a transfer of amount 1 of a token from an address to that same
\* address, sent by the address or one of its operators, succeeds when the
\* address holds the token: the state is as before, the address still the
\* token's only owner, and exactly one Transfer event is logged. When the
\* token exists and the address does not hold it, the call fails with
\* InsufficientFunds and nothing changes.
C39_SelfTransfer ==
  \A sender \in Addresses, a \in Addresses, t \in Tokens :
    LET entry == [token_id |-> t, amount |-> 1, from |-> a, to |-> a, hook |-> "accept"]
        r == call_transfer(state, sender, <<entry>>)
    IN  (sender = a \/ sender \in OperatorsOf(state, a)) =>
          /\ t \in OwnedBy(state, a) =>
               /\ r.res = "Ok"
               /\ r.st = state
               /\ OwnersOf(r.st, t) = {a}
               /\ r.log = <<TransferEventOf(entry)>>
          /\ (t \in state.all_tokens /\ t \notin OwnedBy(state, a)) =>
               /\ r.res = "InsufficientFunds"
               /\ r.st = state
               /\ r.log = << >>

\* a1, operator of a2, has transferred token 1 from a2 to a2.
C39_Witness ==
  /\ last = [op |-> "transfer", res |-> "Ok"]
  /\ events = << [tag |-> "Transfer", token_id |-> 1, amount |-> 1,
                  from |-> "a2", to |-> "a2"] >>
  /\ OwnersOf(state, 1) = {"a2"}
  /\ "a1" \in OperatorsOf(state, "a2")

\* ---------------------------------------------------------------- C40
\* The counts of a tally added up.
RECURSIVE TallySum(_, _)
TallySum(tally, left) ==
  IF left = {}
    THEN 0
    ELSE LET o == CHOOSE x \in left : TRUE
         IN  tally[o] + TallySum(tally, left \ {o})

\* The number of votes the view of st counts.
Counted(st) == TallySum(view(st).rv.tally, DOMAIN view(st).rv.tally)

\* C40: the voting contract holds one ballot for each account that has
\* voted successfully and for no one else, and the ballot is the choice of
\* the account's most recent successful vote; the tally of view counts, for
\* each option, the accounts whose ballot names it, so that its counts add
\* up to the number of accounts that have voted. A vote is rejected exactly
\* when voting has finished, the sender is a contract, the parameter does
\* not parse or the option is unknown, and then the ballots stay as they
\* were; a successful vote sets the sender's ballot to the option voted for
\* and touches no other ballot.
C40_OneBallotPerAccount ==
  /\ DOMAIN voting.ballots = DOMAIN cast
  /\ DOMAIN voting.ballots \subseteq Accounts
  /\ \A a \in DOMAIN cast :
       /\ cast[a] # << >>
       /\ voting.ballots[a] = cast[a][Len(cast[a])]
  /\ Counted(voting) = Cardinality(DOMAIN cast)
  /\ \A o \in DOMAIN view(voting).rv.tally :
       view(voting).rv.tally[o] =
         Cardinality({a \in DOMAIN cast : voting.options[voting.ballots[a] + 1] = o})
  /\ \A sender \in Addresses, parameter \in VoteParameters :
       LET r == vote(voting, sender, now, parameter)
           known == \E i \in 1 .. Len(voting.options) : voting.options[i] = parameter.value
           rejected == \/ voting.end_time < now
                       \/ sender \in Contracts
                       \/ ~parameter.parsed
                       \/ ~known
       IN  /\ rejected <=> r.res # "Ok"
           /\ rejected => r.st = voting
           /\ ~rejected =>
                /\ DOMAIN r.st.ballots = DOMAIN voting.ballots \cup {sender}
                /\ \A a \in DOMAIN voting.ballots \ {sender} :
                     r.st.ballots[a] = voting.ballots[a]
                /\ r.st.options[r.st.ballots[sender] + 1] = parameter.value
                /\ [r.st EXCEPT !.ballots = voting.ballots] = voting
                /\ Counted(r.st) = Cardinality(DOMAIN voting.ballots \cup {sender})

\* a1 voted for o1 and then for o2, a2 voted for o2: two ballots, both
\* counted for o2.
C40_Witness ==
  /\ last = [op |-> "vote", res |-> "Ok"]
  /\ voting.options = <<"o1", "o2">>
  /\ DOMAIN cast = {"a1", "a2"}
  /\ cast["a1"] = <<0, 1>>
  /\ cast["a2"] = <<1>>
  /\ DOMAIN view(voting).rv.tally = {"o2"}
  /\ view(voting).rv.tally["o2"] = 2
====
